---------------------------- MODULE Spec2Model ----------------------------
(***************************************************************************)
(* Model of the trajectory-correction and point-transformation pipeline of *)
(* rosbag_to_las (src/bag2las_transform.py): quaternion math, rigid        *)
(* transforms, trajectory interpolation, the SimpleSLAM pose graph and the *)
(* orchestrator convert_bag_to_laz.                                        *)
(*                                                                         *)
(* Numbers.  Floating-point values are modelled by exact rationals         *)
(* <<n, d>> with d > 0 in lowest terms; <<0, 0>> stands for any non-finite *)
(* value (NaN, +inf, -inf), which the code treats alike (it filters them). *)
(* A quaternion is a record [v, u, arc]: v is an integer 4-vector          *)
(* <<x, y, z, w>>; u = FALSE means the value is v itself, u = TRUE means   *)
(* v / |v| (v primitive); arc = <<>> for such a value, and                 *)
(* arc = <<v2, tn, td>> for the point at fraction tn/td of the great arc   *)
(* from v/|v| to v2/|v2|, a value that has no rational coordinates.        *)
(* None is <<>>, Some(x) is <<x>>.                                          *)
(***************************************************************************)
EXTENDS Integers, Sequences, FiniteSets, TLC

-----------------------------------------------------------------------------
(* Bounds of the model *)

\* most odometry messages in a bag
MaxPoses == 3
\* most point-cloud messages in a bag
MaxScans == 3

-----------------------------------------------------------------------------
(* Exact arithmetic *)

Abs(a) == IF a < 0 THEN -a ELSE a

RECURSIVE GCD(_, _)
GCD(a, b) == IF b = 0 THEN a ELSE GCD(b, a % b)

NonFinite == <<0, 0>>

IsFinite(r) == r[2] # 0

Rat(n, d) ==
    IF d = 0 THEN NonFinite
    ELSE LET s == IF d < 0 THEN -1 ELSE 1
             g == GCD(Abs(n), Abs(d))
         IN  <<(s * n) \div g, (s * d) \div g>>

RInt(n) == <<n, 1>>

RAdd(a, b) == IF a[2] = 0 \/ b[2] = 0 THEN NonFinite
              ELSE Rat(a[1] * b[2] + b[1] * a[2], a[2] * b[2])

RSub(a, b) == IF a[2] = 0 \/ b[2] = 0 THEN NonFinite
              ELSE Rat(a[1] * b[2] - b[1] * a[2], a[2] * b[2])

RMul(a, b) == IF a[2] = 0 \/ b[2] = 0 THEN NonFinite
              ELSE Rat(a[1] * b[1], a[2] * b[2])

\* numpy division: a finite value over zero is inf or NaN, never an exception
RDiv(a, b) == IF a[2] = 0 \/ b[2] = 0 THEN NonFinite
              ELSE Rat(a[1] * b[2], a[2] * b[1])

RLess(a, b) == a[1] * b[2] < b[1] * a[2]

RZero == RInt(0)

ROne == RInt(1)

\* a 3-vector of rationals from integer coordinates
Vec3(x, y, z) == <<RInt(x), RInt(y), RInt(z)>>

VSub(a, b) == [i \in 1..3 |-> RSub(a[i], b[i])]

VFinite(p) == \A i \in 1..3 : IsFinite(p[i])

\* largest r with r * r <= n, for n >= 0
RECURSIVE ISqrtFrom(_, _)
ISqrtFrom(n, r) == IF (r + 1) * (r + 1) > n THEN r ELSE ISqrtFrom(n, r + 1)

ISqrt(n) == ISqrtFrom(n, 0)

IsSquare(n) == ISqrt(n) * ISqrt(n) = n

-----------------------------------------------------------------------------
(* Quaternions *)

QDot(a, b) == a[1] * b[1] + a[2] * b[2] + a[3] * b[3] + a[4] * b[4]

QNorm2(a) == QDot(a, a)

QNeg(a) == [i \in 1..4 |-> -a[i]]

QZeroVec == <<0, 0, 0, 0>>

\* the primitive integer vector on the ray of a
QPrim(a) ==
    LET g == GCD(GCD(Abs(a[1]), Abs(a[2])), GCD(Abs(a[3]), Abs(a[4])))
    IN  IF g = 0 THEN QZeroVec ELSE [i \in 1..4 |-> a[i] \div g]

\* the quaternion with exactly the components v
QRaw(v) == [v |-> v, u |-> FALSE, arc |-> <<>>]

\* v / |v|; a zero v divides by zero and gives NaN components
QUnit(v) ==
    LET p == QPrim(v)
    IN  [v |-> p, u |-> (QNorm2(p) # 1), arc |-> <<>>]

QNaN == [v |-> QZeroVec, u |-> TRUE, arc |-> <<>>]

\* q / np.linalg.norm(q)
QNormalize(q) == IF q.arc # <<>> THEN q ELSE QUnit(q.v)

QIsNaN(q) == q.u /\ q.v = QZeroVec

\* the same rotation: equal after normalisation, up to sign
SameRotation(q1, q2) ==
    LET a == QNormalize(q1)
        b == QNormalize(q2)
    IN  /\ ~QIsNaN(a)
        /\ a.arc = <<>> /\ b.arc = <<>>
        /\ (a.v = b.v \/ a.v = QNeg(b.v))

\* DOT_THRESHOLD = 0.9995 as the fraction 9995 / 10000
DOT_THRESHOLD_NUM == 9995

DOT_THRESHOLD_DEN == 10000

\* a/b > c/d for positive b, d, by comparing integer parts and then the
\* inverted remainders, so that no product leaves the integer range
RECURSIVE FracGreater(_, _, _, _)
FracGreater(a, b, c, d) ==
    IF a \div b # c \div d THEN a \div b > c \div d
    ELSE IF a % b = 0 THEN FALSE
    ELSE IF c % d = 0 THEN TRUE
    ELSE FracGreater(d, c % d, b, a % b)

\* dot > DOT_THRESHOLD for the unit vectors on the rays a, b with a.b >= 0
NearParallel(a, b) ==
    LET d == QDot(a, b)
    IN  d > 0 /\ FracGreater(d * d, QNorm2(a) * QNorm2(b),
                             DOT_THRESHOLD_NUM * DOT_THRESHOLD_NUM,
                             DOT_THRESHOLD_DEN * DOT_THRESHOLD_DEN)

\* (1-t) a/|a| + t b/|b| normalised, t = tn/td, when that is a rational ray
BlendExact(a, b, tn, td) ==
    \/ QNorm2(a) = QNorm2(b)
    \/ (IsSquare(QNorm2(a)) /\ IsSquare(QNorm2(b)))

Blend(a, b, tn, td) ==
    LET na == IF QNorm2(a) = QNorm2(b) THEN 1 ELSE ISqrt(QNorm2(a))
        nb == IF QNorm2(a) = QNorm2(b) THEN 1 ELSE ISqrt(QNorm2(b))
    IN  QUnit([i \in 1..4 |-> (td - tn) * nb * a[i] + tn * na * b[i]])

\* a variant with the weights s0 and s1 of the general branch exchanged
SlerpWeightsSwapped(q1, q2, tn, td) ==
    LET a  == QPrim(q1.v)
        b0 == QPrim(q2.v)
        neg == QDot(a, b0) < 0
        b  == IF neg THEN QNeg(b0) ELSE b0
    IN  IF a = QZeroVec \/ b0 = QZeroVec THEN QNaN
        ELSE IF NearParallel(a, b)
        THEN IF a = b \/ tn = 0 THEN QUnit(a)
             ELSE IF tn = td THEN QUnit(b)
             ELSE IF BlendExact(a, b, tn, td) THEN Blend(a, b, tn, td)
             ELSE [v |-> a, u |-> TRUE, arc |-> <<b, tn, td>>]
        ELSE IF tn = 0 THEN QUnit(b)
             ELSE IF tn = td THEN QUnit(a)
             ELSE IF 2 * tn = td /\ BlendExact(a, b, tn, td) THEN Blend(a, b, 1, 2)
             ELSE [v |-> b, u |-> TRUE, arc |-> <<a, tn, td>>]

\* slerp_quaternions(q1, q2, t) with t = tn/td in [0, 1]
slerp_quaternions(q1, q2, tn, td) ==
    LET a  == QPrim(q1.v)
        b0 == QPrim(q2.v)
        neg == QDot(a, b0) < 0
        b  == IF neg THEN QNeg(b0) ELSE b0
    IN  IF a = QZeroVec \/ b0 = QZeroVec THEN QNaN
        ELSE IF NearParallel(a, b)
        THEN \* result = q1 + t * (q2 - q1), renormalised
             IF a = b \/ tn = 0 THEN QUnit(a)
             ELSE IF tn = td THEN QUnit(b)
             ELSE IF BlendExact(a, b, tn, td) THEN Blend(a, b, tn, td)
             ELSE [v |-> a, u |-> TRUE, arc |-> <<b, tn, td>>]
        ELSE \* s0 * q1 + s1 * q2 with s0 = sin((1-t) th)/sin th, s1 = sin(t th)/sin th
             IF tn = 0 THEN QUnit(a)
             ELSE IF tn = td THEN QUnit(b)
             ELSE IF 2 * tn = td /\ BlendExact(a, b, tn, td) THEN Blend(a, b, 1, 2)
             ELSE [v |-> a, u |-> TRUE, arc |-> <<b, tn, td>>]

-----------------------------------------------------------------------------
(* Rigid transforms *)

\* a variant with the sign of z*w flipped in row 1, column 2
RotationMatrixSignFlipped(q) ==
    LET x == q.v[1]
        y == q.v[2]
        z == q.v[3]
        w == q.v[4]
        n == QNorm2(q.v)
        E(diag, k) == Rat(diag * n - 2 * k, n)
    IN  IF q.arc # <<>> \/ QIsNaN(q)
        THEN [i \in 1..3 |-> [j \in 1..3 |-> NonFinite]]
        ELSE IF n = 0
        THEN <<  <<ROne, RZero, RZero>>, <<RZero, ROne, RZero>>, <<RZero, RZero, ROne>>  >>
        ELSE <<  <<E(1, y*y + z*z), E(0, 0 - z*w - x*y), E(0, 0 - x*z - y*w)>>,
                 <<E(0, 0 - x*y - z*w), E(1, x*x + z*z), E(0, x*w - y*z)>>,
                 <<E(0, y*w - x*z), E(0, 0 - y*z - x*w), E(1, x*x + y*y)>>  >>

\* quaternion_to_rotation_matrix: the input is renormalised when its norm is
\* positive, so the matrix depends on the ray of v only; entries are rational
quaternion_to_rotation_matrix(q) ==
    LET x == q.v[1]
        y == q.v[2]
        z == q.v[3]
        w == q.v[4]
        n == QNorm2(q.v)
        E(diag, k) == Rat(diag * n - 2 * k, n)
    IN  IF q.arc # <<>> \/ QIsNaN(q)
        THEN [i \in 1..3 |-> [j \in 1..3 |-> NonFinite]]
        ELSE IF n = 0
        THEN <<  <<ROne, RZero, RZero>>, <<RZero, ROne, RZero>>, <<RZero, RZero, ROne>>  >>
        ELSE <<  <<E(1, y*y + z*z), E(0, z*w - x*y), E(0, 0 - x*z - y*w)>>,
                 <<E(0, 0 - x*y - z*w), E(1, x*x + z*z), E(0, x*w - y*z)>>,
                 <<E(0, y*w - x*z), E(0, 0 - y*z - x*w), E(1, x*x + y*y)>>  >>

\* create_transform_matrix(position, quaternion) without lidar offset:
\* the rotation block, the translation column and the row (0, 0, 0, 1)
create_transform_matrix(position, quaternion) ==
    LET R == quaternion_to_rotation_matrix(quaternion)
    IN  <<  <<R[1][1], R[1][2], R[1][3], position[1]>>,
            <<R[2][1], R[2][2], R[2][3], position[2]>>,
            <<R[3][1], R[3][2], R[3][3], position[3]>>,
            <<RZero, RZero, RZero, ROne>>  >>

Identity4 ==
    <<  <<ROne, RZero, RZero, RZero>>, <<RZero, ROne, RZero, RZero>>,
        <<RZero, RZero, ROne, RZero>>, <<RZero, RZero, RZero, ROne>>  >>

RSum4(a, b, c, d) == RAdd(RAdd(a, b), RAdd(c, d))

\* A @ B for 4x4 matrices
MatMul(A, B) ==
    [i \in 1..4 |-> [j \in 1..4 |->
        RSum4(RMul(A[i][1], B[1][j]), RMul(A[i][2], B[2][j]),
              RMul(A[i][3], B[3][j]), RMul(A[i][4], B[4][j]))]]

\* np.cos and np.sin of an angle of k quarter turns (k * pi / 2)
CosQ(k) == RInt(<<1, 0, -1, 0>>[(k % 4) + 1])

SinQ(k) == RInt(<<0, 1, 0, -1>>[(k % 4) + 1])

\* R_lidar, lines 123-131, for Euler angles of rx, ry, rz quarter turns
R_lidar(rx, ry, rz) ==
    LET cos_rx == CosQ(rx)
        sin_rx == SinQ(rx)
        cos_ry == CosQ(ry)
        sin_ry == SinQ(ry)
        cos_rz == CosQ(rz)
        sin_rz == SinQ(rz)
        Neg(a) == RSub(RZero, a)
        M3(a, b, c) == RMul(RMul(a, b), c)
    IN  <<  <<RMul(cos_ry, cos_rz), Neg(RMul(cos_ry, sin_rz)), sin_ry>>,
            <<RAdd(M3(sin_rx, sin_ry, cos_rz), RMul(cos_rx, sin_rz)),
              RAdd(Neg(M3(sin_rx, sin_ry, sin_rz)), RMul(cos_rx, cos_rz)),
              Neg(RMul(sin_rx, cos_ry))>>,
            <<RAdd(Neg(M3(cos_rx, sin_ry, cos_rz)), RMul(sin_rx, sin_rz)),
              RAdd(M3(cos_rx, sin_ry, sin_rz), RMul(sin_rx, cos_rz)),
              RMul(cos_rx, cos_ry)>>  >>

\* lidar_offset_matrix, lines 117-139: the offset is (x, y, z) or
\* (x, y, z, rx, ry, rz), the angles counted in quarter turns
lidar_offset_matrix(lidar_offset) ==
    LET R == IF Len(lidar_offset) > 3
             THEN R_lidar(lidar_offset[4], lidar_offset[5], lidar_offset[6])
             ELSE <<  <<ROne, RZero, RZero>>, <<RZero, ROne, RZero>>, <<RZero, RZero, ROne>>  >>
    IN  <<  <<R[1][1], R[1][2], R[1][3], RInt(lidar_offset[1])>>,
            <<R[2][1], R[2][2], R[2][3], RInt(lidar_offset[2])>>,
            <<R[3][1], R[3][2], R[3][3], RInt(lidar_offset[3])>>,
            <<RZero, RZero, RZero, ROne>>  >>

\* create_transform_matrix(position, quaternion, lidar_offset): lidar_offset
\* is <<>> for None and <<offset>> otherwise
create_transform_matrix_lidar(position, quaternion, lidar_offset) ==
    IF lidar_offset = <<>> THEN create_transform_matrix(position, quaternion)
    ELSE MatMul(create_transform_matrix(position, quaternion),
                lidar_offset_matrix(lidar_offset[1]))

Det2(a, b, c, d) == RSub(RMul(a, d), RMul(b, c))

\* the cofactor of entry (i, j) of the 3x3 block of M
Cofactor(M, i, j) ==
    LET r == IF i = 1 THEN <<2, 3>> ELSE IF i = 2 THEN <<1, 3>> ELSE <<1, 2>>
        c == IF j = 1 THEN <<2, 3>> ELSE IF j = 2 THEN <<1, 3>> ELSE <<1, 2>>
        m == Det2(M[r[1]][c[1]], M[r[1]][c[2]], M[r[2]][c[1]], M[r[2]][c[2]])
    IN  IF (i + j) % 2 = 0 THEN m ELSE RSub(RZero, m)

\* np.linalg.det(M[:3, :3])
Det3(M) ==
    RAdd(RAdd(RMul(M[1][1], Cofactor(M, 1, 1)), RMul(M[1][2], Cofactor(M, 1, 2))),
         RMul(M[1][3], Cofactor(M, 1, 3)))

\* np.linalg.inv of a matrix with last row (0, 0, 0, 1): the inverse of the
\* 3x3 block by cofactors, and the translation -A^-1 t
MatInv(M) ==
    LET d == Det3(M)
        Ai == [i \in 1..3 |-> [j \in 1..3 |-> RDiv(Cofactor(M, j, i), d)]]
        ti == [i \in 1..3 |->
                 RSub(RZero, RAdd(RAdd(RMul(Ai[i][1], M[1][4]), RMul(Ai[i][2], M[2][4])),
                                  RMul(Ai[i][3], M[3][4])))]
    IN  <<  <<Ai[1][1], Ai[1][2], Ai[1][3], ti[1]>>,
            <<Ai[2][1], Ai[2][2], Ai[2][3], ti[2]>>,
            <<Ai[3][1], Ai[3][2], Ai[3][3], ti[3]>>,
            <<RZero, RZero, RZero, ROne>>  >>

\* the determinant check of apply_transform_to_points, lines 164-166:
\* abs(det - 1.0) > 1e-3 prints the warning (a NaN determinant does not)
DeterminantWarning(T) ==
    LET det == Det3(T)
    IN  /\ IsFinite(det)
        /\ \/ RLess(Rat(1, 1000), RSub(det, ROne))
           \/ RLess(Rat(1, 1000), RSub(ROne, det))

\* a variant that multiplies the points from the other side
TransformPointTransposed(T, p) ==
    IF ~VFinite(p) THEN <<NonFinite, NonFinite, NonFinite>>
    ELSE [i \in 1..3 |->
            RSum4(RMul(T[1][i], p[1]), RMul(T[2][i], p[2]), RMul(T[3][i], p[3]), T[4][i])]

\* one row of (transform_matrix @ homogeneous_points.T).T, projected to 3-D;
\* a non-finite coordinate makes every coordinate of the result non-finite
TransformPoint(T, p) ==
    IF ~VFinite(p) THEN <<NonFinite, NonFinite, NonFinite>>
    ELSE [i \in 1..3 |->
            RSum4(RMul(T[i][1], p[1]), RMul(T[i][2], p[2]), RMul(T[i][3], p[3]), T[i][4])]

\* apply_transform_to_points(points, transform_matrix) for an N x 3 batch and
\* a 4 x 4 matrix; the determinant and NaN checks only print warnings
apply_transform_to_points(points, T) ==
    [k \in 1..Len(points) |-> TransformPoint(T, points[k])]

-----------------------------------------------------------------------------
(* Trajectory interpolation *)

\* a pose: timestamp (integer seconds), position, orientation
Pose(t, p, q) == [t |-> t, p |-> p, q |-> q]

RECURSIVE SeqMin(_)
SeqMin(s) == IF Len(s) = 1 THEN s[1]
             ELSE LET m == SeqMin(Tail(s)) IN IF s[1] < m THEN s[1] ELSE m

RECURSIVE SeqMax(_)
SeqMax(s) == IF Len(s) = 1 THEN s[1]
             ELSE LET m == SeqMax(Tail(s)) IN IF s[1] > m THEN s[1] ELSE m

Max2(a, b) == IF a > b THEN a ELSE b

Min2(a, b) == IF a < b THEN a ELSE b

\* np.searchsorted(ts, t) (side left) as a 0-based index: how many entries of
\* the sorted sequence ts are below t
SearchSorted(ts, t) == Cardinality({k \in 1..Len(ts) : ts[k] < t})

\* interp1d(kind='linear', fill_value='extrapolate') on one channel: the
\* segment found by searchsorted, clipped to the first and last segment
Interp1d(ts, ys, t) ==
    LET i0  == SearchSorted(ts, t)
        hi  == Min2(Max2(i0, 1), Len(ts) - 1) + 1
        lo  == hi - 1
        slope == RDiv(RSub(ys[hi], ys[lo]), RInt(ts[hi] - ts[lo]))
    IN  RAdd(RMul(slope, RInt(t - ts[lo])), ys[lo])

OdomTimes(odom) == [k \in 1..Len(odom) |-> odom[k].t]

\* a variant that holds the end positions outside the trajectory
InterpPositionClamped(odom, t) ==
    LET tc == Min2(Max2(t, odom[1].t), odom[Len(odom)].t)
    IN  [c \in 1..3 |-> Interp1d(OdomTimes(odom), [k \in 1..Len(odom) |-> odom[k].p[c]], tc)]

InterpPosition(odom, t) ==
    [c \in 1..3 |-> Interp1d(OdomTimes(odom), [k \in 1..Len(odom) |-> odom[k].p[c]], t)]

\* the 1-based index of the upper pose of the bracketing pair of an interior
\* query time: idx = np.searchsorted(...), raised to 1 when it is 0
BracketIdx(odom, t) ==
    LET idx == SearchSorted(OdomTimes(odom), t)
    IN  (IF idx = 0 THEN 1 ELSE idx) + 1

\* a variant that measures the fraction from the upper pose
BracketFracReversed(odom, t) ==
    LET idx == SearchSorted(OdomTimes(odom), t)
        hi == (IF idx = 0 THEN 1 ELSE idx) + 1
        t1 == odom[hi - 1].t
        t2 == odom[hi].t
    IN  IF t2 # t1 THEN Rat(t2 - t, t2 - t1) ELSE RZero

\* the interpolation parameter <<tn, td>> after np.clip(t, 0.0, 1.0)
BracketFrac(odom, t) ==
    LET hi == BracketIdx(odom, t)
        t1 == odom[hi - 1].t
        t2 == odom[hi].t
        f  == IF t2 # t1 THEN Rat(t - t1, t2 - t1) ELSE RZero
    IN  IF RLess(f, RZero) THEN RZero ELSE IF RLess(ROne, f) THEN ROne ELSE f

\* the orientation for one query time: clamped at both ends, SLERP between
InterpOrientation(odom, t) ==
    IF t <= odom[1].t THEN odom[1].q
    ELSE IF t >= odom[Len(odom)].t THEN odom[Len(odom)].q
    ELSE LET hi == BracketIdx(odom, t)
             f  == BracketFrac(odom, t)
         IN  slerp_quaternions(odom[hi - 1].q, odom[hi].q, f[1], f[2])

Sentinel == [kind |-> "none", poses |-> <<>>]

Raised == [kind |-> "raise", poses |-> <<>>]

\* lines 258-326: the overlap check and the interpolation proper.  np.min of
\* an empty array raises before the try block is entered.
InterpolateChecked(pc_timestamps, odom) ==
    IF Len(pc_timestamps) = 0 \/ Len(odom) = 0 THEN Raised
    ELSE LET odom_start == SeqMin(OdomTimes(odom))
             odom_end   == SeqMax(OdomTimes(odom))
             pc_start   == SeqMin(pc_timestamps)
             pc_end     == SeqMax(pc_timestamps)
             overlap_start == Max2(odom_start, pc_start)
             overlap_end   == Min2(odom_end, pc_end)
         IN  IF overlap_start >= overlap_end THEN Sentinel
             ELSE [kind |-> "ok",
                   poses |-> [i \in 1..Len(pc_timestamps) |->
                                [p |-> InterpPosition(odom, pc_timestamps[i]),
                                 q |-> InterpOrientation(odom, pc_timestamps[i])]]]

\* a variant without the check on the number of poses
InterpolateUnguarded(pc_timestamps, odom) == InterpolateChecked(pc_timestamps, odom)

\* interpolate_odometry_data(pc_timestamps, odom_timestamps, odom_positions,
\* odom_orientations): kind "none" is the (None, None) return
interpolate_odometry_data(pc_timestamps, odom) ==
    IF Len(odom) < 2 THEN Sentinel
    ELSE InterpolateChecked(pc_timestamps, odom)

-----------------------------------------------------------------------------
(* SimpleSLAM.  An instance is a record of its fields; pose ids and edge    *)
(* ends are 0-based as in the code, so pose id i is self.poses[i + 1].      *)

\* SimpleSLAM.__init__
SimpleSLAM(lcd, mtg) ==
    [loop_closure_distance |-> lcd, min_time_gap |-> mtg,
     poses |-> <<>>, odometry_edges |-> <<>>, loop_closure_edges |-> <<>>]

\* add_pose: the instance after the call; the call returns AddPoseId(self)
AddPoseId(self) == Len(self.poses)

\* a variant that adds an edge for the first pose too
AddPoseEdgeAlways(self, timestamp, position, quaternion) ==
    [self EXCEPT
        !.poses = Append(@, Pose(timestamp, position, quaternion)),
        !.odometry_edges = Append(@, <<AddPoseId(self) - 1, AddPoseId(self)>>)]

add_pose(self, timestamp, position, quaternion) ==
    [self EXCEPT
        !.poses = Append(@, Pose(timestamp, position, quaternion)),
        !.odometry_edges = IF AddPoseId(self) > 0
                           THEN Append(@, <<AddPoseId(self) - 1, AddPoseId(self)>>)
                           ELSE @]

\* squared Euclidean distance of two positions
Dist2(a, b) ==
    LET d == VSub(a, b)
    IN  RAdd(RAdd(RMul(d[1], d[1]), RMul(d[2], d[2])), RMul(d[3], d[3]))

\* the square root of a rational square; the inputs of the model are chosen
\* so that every distance taken is rational
RSqrt(r) ==
    CHOOSE s \in {<<ISqrt(r[1]), ISqrt(r[2])>>} :
        s[1] * s[1] = r[1] /\ s[2] * s[2] = r[2]

\* a variant that takes the squared distance over the squared radius
ConfidenceOfSquares(self, i, j) ==
    LET c == RSub(ROne, RDiv(Dist2(self.poses[i + 1].p, self.poses[j + 1].p),
                             RInt(self.loop_closure_distance * self.loop_closure_distance)))
    IN  IF RLess(c, RZero) THEN RZero ELSE c

\* confidence = max(0, 1.0 - distance / self.loop_closure_distance)
Confidence(self, i, j) ==
    LET distance == RSqrt(Dist2(self.poses[i + 1].p, self.poses[j + 1].p))
        c == RSub(ROne, RDiv(distance, RInt(self.loop_closure_distance)))
    IN  IF RLess(c, RZero) THEN RZero ELSE c

\* a variant that accepts a pair whatever its time gap
LoopClosureAcceptedAnyGap(self, i, j) ==
    /\ VFinite(self.poses[i + 1].p) /\ VFinite(self.poses[j + 1].p)
    /\ ~RLess(RInt(self.loop_closure_distance * self.loop_closure_distance),
              Dist2(self.poses[i + 1].p, self.poses[j + 1].p))
    /\ j > i
    /\ RLess(Rat(3, 10), Confidence(self, i, j))

\* a variant that accepts a pair whatever its confidence
LoopClosureAcceptedAnyConfidence(self, i, j) ==
    /\ VFinite(self.poses[i + 1].p) /\ VFinite(self.poses[j + 1].p)
    /\ ~RLess(RInt(self.loop_closure_distance * self.loop_closure_distance),
              Dist2(self.poses[i + 1].p, self.poses[j + 1].p))
    /\ j > i
    /\ Abs(self.poses[i + 1].t - self.poses[j + 1].t) >= self.min_time_gap

\* the body of the double loop for the pair (i, j): j is in the ball around
\* pose i (no comparison with a non-finite distance is true), is a later
\* pose, is far enough in time and is confident enough
LoopClosureAccepted(self, i, j) ==
    /\ VFinite(self.poses[i + 1].p) /\ VFinite(self.poses[j + 1].p)
    /\ ~RLess(RInt(self.loop_closure_distance * self.loop_closure_distance),
              Dist2(self.poses[i + 1].p, self.poses[j + 1].p))
    /\ j > i
    /\ Abs(self.poses[i + 1].t - self.poses[j + 1].t) >= self.min_time_gap
    /\ RLess(Rat(3, 10), Confidence(self, i, j))

\* the pairs in the order of the loops (the ball query lists j ascending)
RECURSIVE LoopClosureScan(_, _)
LoopClosureScan(self, k) ==
    LET n == Len(self.poses)
        i == k \div n
        j == k % n
    IN  IF k >= n * n THEN <<>>
        ELSE (IF LoopClosureAccepted(self, i, j)
              THEN <<<<i, j, Confidence(self, i, j)>>>> ELSE <<>>)
             \o LoopClosureScan(self, k + 1)

\* KDTree(positions), line 451, is outside the repository: on positions that
\* are not all finite it raises ValueError in the releases that check their
\* data and builds the tree in the others.  TRUE stands for the exception.
KDTreeOutcomes(self) ==
    IF Len(self.poses) >= 3 /\ \E k \in 1..Len(self.poses) : ~VFinite(self.poses[k].p)
    THEN BOOLEAN ELSE {FALSE}

\* a variant that searches a graph of any size
DetectReturnAnySize(self) == LoopClosureScan(self, 0)

\* detect_loop_closures without point clouds: the list the call returns
DetectReturn(self) ==
    IF Len(self.poses) < 3 THEN <<>> ELSE LoopClosureScan(self, 0)

\* a variant that appends what it finds to the stored edges
DetectAppending(self) ==
    IF Len(self.poses) < 3 THEN self
    ELSE [self EXCEPT !.loop_closure_edges = @ \o LoopClosureScan(self, 0)]

\* detect_loop_closures: the instance after the call; with fewer than three
\* poses the call returns before the assignment to self.loop_closure_edges
detect_loop_closures(self) ==
    IF Len(self.poses) < 3 THEN self
    ELSE [self EXCEPT !.loop_closure_edges = LoopClosureScan(self, 0)]

\* _calculate_geometric_features for a cloud of at most two finite points:
\* np.mean and np.std along each axis (the deviation of two values is half
\* their distance, of one value 0)
_calculate_geometric_features(pc) ==
    LET mean(a) == IF Len(pc) = 1 THEN pc[1][a]
                   ELSE RDiv(RAdd(pc[1][a], pc[2][a]), RInt(2))
        dev(a) == IF Len(pc) = 1 THEN RZero
                  ELSE LET d == RSub(pc[1][a], pc[2][a])
                       IN  RDiv(IF RLess(d, RZero) THEN RSub(RZero, d) ELSE d, RInt(2))
    IN  IF Len(pc) = 0 THEN [k \in 1..6 |-> RZero]
        ELSE <<mean(1), mean(2), mean(3), dev(1), dev(2), dev(3)>>

\* np.mean(np.abs(stats1 - stats2) / (np.abs(stats1) + np.abs(stats2)))
\* without the 1e-6 of the denominator; a feature equal in both clouds
\* contributes 0
MeanFeatureDiff(stats1, stats2) ==
    LET RAbs(a) == IF RLess(a, RZero) THEN RSub(RZero, a) ELSE a
        diff(k) == IF stats1[k] = stats2[k] THEN RZero
                   ELSE RDiv(RAbs(RSub(stats1[k], stats2[k])),
                             RAdd(RAbs(stats1[k]), RAbs(stats2[k])))
    IN  RDiv(RAdd(RAdd(RAdd(diff(1), diff(2)), RAdd(diff(3), diff(4))),
                  RAdd(diff(5), diff(6))), RInt(6))

\* _calculate_point_cloud_similarity(pc1, pc2) as a pair of rational bounds
\* <<low, high>> on the value returned; a cloud is <<>> for None and <<pc>>
\* otherwise.  A missing or empty cloud gives 0.0.  Otherwise the value is
\* exp(-m), m the mean feature difference: with M the mean without the 1e-6
\* (features here are multiples of 1/2, so 999/1000 M <= m <= M <= 1),
\* 1 - M <= exp(-m) <= 1 - m/2 <= 1 - 999/2000 M
_calculate_point_cloud_similarity(pc1, pc2) ==
    IF pc1 = <<>> \/ pc2 = <<>> THEN <<RZero, RZero>>
    ELSE IF Len(pc1[1]) = 0 \/ Len(pc2[1]) = 0 THEN <<RZero, RZero>>
    ELSE LET M == MeanFeatureDiff(_calculate_geometric_features(pc1[1]),
                                  _calculate_geometric_features(pc2[1]))
         IN  <<RSub(ROne, M), RSub(ROne, RMul(Rat(999, 2000), M))>>

\* a variant that adds the similarity to the confidence
ConfidenceWithCloudsAdded(self, point_clouds, upper, i, j) ==
    IF point_clouds # <<>> /\ i < Len(point_clouds[1]) /\ j < Len(point_clouds[1])
    THEN LET pc_similarity == _calculate_point_cloud_similarity(point_clouds[1][i + 1],
                                                                point_clouds[1][j + 1])
         IN  RAdd(Confidence(self, i, j),
                  IF <<i, j>> \in upper THEN pc_similarity[2] ELSE pc_similarity[1])
    ELSE Confidence(self, i, j)

\* lines 470-479: the confidence of the pair (i, j), multiplied by the
\* similarity of the clouds of i and j when point_clouds holds both;
\* point_clouds is <<>> for None; for the pairs in upper the similarity is
\* taken at its upper bound, for the others at its lower bound
ConfidenceWithClouds(self, point_clouds, upper, i, j) ==
    IF point_clouds # <<>> /\ i < Len(point_clouds[1]) /\ j < Len(point_clouds[1])
    THEN LET pc_similarity == _calculate_point_cloud_similarity(point_clouds[1][i + 1],
                                                                point_clouds[1][j + 1])
         IN  RMul(Confidence(self, i, j),
                  IF <<i, j>> \in upper THEN pc_similarity[2] ELSE pc_similarity[1])
    ELSE Confidence(self, i, j)

\* the body of the double loop for the pair (i, j) with point clouds
LoopClosureAcceptedWithClouds(self, point_clouds, upper, i, j) ==
    /\ VFinite(self.poses[i + 1].p) /\ VFinite(self.poses[j + 1].p)
    /\ ~RLess(RInt(self.loop_closure_distance * self.loop_closure_distance),
              Dist2(self.poses[i + 1].p, self.poses[j + 1].p))
    /\ j > i
    /\ Abs(self.poses[i + 1].t - self.poses[j + 1].t) >= self.min_time_gap
    /\ RLess(Rat(3, 10), ConfidenceWithClouds(self, point_clouds, upper, i, j))

RECURSIVE LoopClosureScanWithClouds(_, _, _, _)
LoopClosureScanWithClouds(self, point_clouds, upper, k) ==
    LET n == Len(self.poses)
        i == k \div n
        j == k % n
    IN  IF k >= n * n THEN <<>>
        ELSE (IF LoopClosureAcceptedWithClouds(self, point_clouds, upper, i, j)
              THEN <<<<i, j, ConfidenceWithClouds(self, point_clouds, upper, i, j)>>>>
              ELSE <<>>)
             \o LoopClosureScanWithClouds(self, point_clouds, upper, k + 1)

\* detect_loop_closures(point_clouds): the list the call returns
DetectReturnWithClouds(self, point_clouds, upper) ==
    IF Len(self.poses) < 3 THEN <<>>
    ELSE LoopClosureScanWithClouds(self, point_clouds, upper, 0)

\* the solver's variables: per pose a position and four quaternion components
InitialParams(self) ==
    [k \in 1..Len(self.poses) |-> [p |-> self.poses[k].p, q |-> self.poses[k].q.v]]

SumSq(rs) ==
    LET RECURSIVE Go(_)
        Go(k) == IF k > Len(rs) THEN RZero ELSE RAdd(RMul(rs[k], rs[k]), Go(k + 1))
    IN  Go(1)

\* a variant that takes the displacement itself as the translation residual
OdometryResidualOfDisplacement(self, x, e) ==
    LET i == e[1] + 1
        j == e[2] + 1
        rel_trans == VSub(x[j].p, x[i].p)
    IN  <<rel_trans[1], rel_trans[2], rel_trans[3],
          Rat(x[j].q[1] - x[i].q[1], 10),
          Rat(x[j].q[2] - x[i].q[2], 10),
          Rat(x[j].q[3] - x[i].q[3], 10)>>

\* the six residuals of one sequential edge
OdometryResidual(self, x, e) ==
    LET i == e[1] + 1
        j == e[2] + 1
        rel_trans == VSub(x[j].p, x[i].p)
        expected_trans == VSub(self.poses[j].p, self.poses[i].p)
        trans_residual == VSub(rel_trans, expected_trans)
    IN  <<trans_residual[1], trans_residual[2], trans_residual[3],
          Rat(x[j].q[1] - x[i].q[1], 10),
          Rat(x[j].q[2] - x[i].q[2], 10),
          Rat(x[j].q[3] - x[i].q[3], 10)>>

\* the three residuals of one loop closure edge
LoopClosureResidual(x, e) ==
    LET d == VSub(x[e[1] + 1].p, x[e[2] + 1].p)
    IN  <<RMul(d[1], e[3]), RMul(d[2], e[3]), RMul(d[3], e[3])>>

RECURSIVE Flatten(_)
Flatten(ss) == IF ss = <<>> THEN <<>> ELSE Head(ss) \o Flatten(Tail(ss))

_pose_graph_residuals(self, x) ==
    Flatten([k \in 1..Len(self.odometry_edges) |->
                 IF self.odometry_edges[k][1] < Len(x) /\ self.odometry_edges[k][2] < Len(x)
                 THEN OdometryResidual(self, x, self.odometry_edges[k]) ELSE <<>>])
    \o
    Flatten([k \in 1..Len(self.loop_closure_edges) |->
                 IF self.loop_closure_edges[k][1] < Len(x) /\ self.loop_closure_edges[k][2] < Len(x)
                 THEN LoopClosureResidual(x, self.loop_closure_edges[k]) ELSE <<>>])

Cost(self, x) == SumSq(_pose_graph_residuals(self, x))

\* scipy's least_squares is outside the repository.  What the model keeps of
\* it: it raises when a residual at the start is not finite; it returns the
\* start when every residual there is zero (the gradient is zero, the first
\* termination test passes); otherwise it returns some x whose cost is not
\* above the cost of the start.  The x are drawn from the start itself, the
\* start with every position pulled towards the first pose by one of
\* SolverScales, and either with every quaternion replaced by the first one.
SolverScales == {Rat(0, 1), Rat(1, 2), Rat(9, 10), Rat(1, 1)}

ScaledParams(x, s, equalise) ==
    [k \in 1..Len(x) |->
        [p |-> [c \in 1..3 |-> RAdd(x[1].p[c], RMul(s, RSub(x[k].p[c], x[1].p[c])))],
         q |-> IF equalise THEN x[1].q ELSE x[k].q]]

ResidualsFinite(self, x) ==
    LET r == _pose_graph_residuals(self, x)
    IN  \A k \in 1..Len(r) : IsFinite(r[k])

\* the results least_squares may hand back; raised for an exception
SolverOutcomes(self) ==
    LET x0 == InitialParams(self)
        c0 == Cost(self, x0)
    IN  IF ~ResidualsFinite(self, x0) THEN {[raised |-> TRUE, x |-> <<>>]}
        ELSE IF c0 = RZero THEN {[raised |-> FALSE, x |-> x0]}
        ELSE {[raised |-> FALSE, x |-> x] :
                 x \in {y \in {ScaledParams(x0, s, e) : s \in SolverScales, e \in BOOLEAN} :
                           ~RLess(c0, Cost(self, y))}}

\* a variant that numbers the returned poses instead of keeping their times
OptimizePosesRenumbered(self, outcome) ==
    IF Len(self.poses) < 2 THEN self.poses
    ELSE IF outcome.raised THEN self.poses
    ELSE [k \in 1..Len(self.poses) |->
             Pose(k - 1, outcome.x[k].p, QUnit(outcome.x[k].q))]

\* a variant without the handler of lines 594-596: nothing comes back when
\* the solver raises
OptimizePosesUnhandled(self, outcome) ==
    IF Len(self.poses) < 2 THEN self.poses
    ELSE IF outcome.raised THEN <<>>
    ELSE [k \in 1..Len(self.poses) |->
             Pose(self.poses[k].t, outcome.x[k].p, QUnit(outcome.x[k].q))]

\* optimize_poses, given what the solver did: original timestamps, the
\* solver's positions, its quaternions normalised; the instance is not touched
optimize_poses(self, outcome) ==
    IF Len(self.poses) < 2 THEN self.poses
    ELSE IF outcome.raised THEN self.poses
    ELSE [k \in 1..Len(self.poses) |->
             Pose(self.poses[k].t, outcome.x[k].p, QUnit(outcome.x[k].q))]

\* the parameters apply_slam_optimization constructs its instance with
APPLY_LOOP_CLOSURE_DISTANCE == 3

APPLY_MIN_TIME_GAP == 15

RECURSIVE AddAllPoses(_, _, _)
AddAllPoses(self, odom, k) ==
    IF k > Len(odom) THEN self
    ELSE AddAllPoses(add_pose(self, odom[k].t, odom[k].p, odom[k].q), odom, k + 1)

\* the instance apply_slam_optimization has built when it calls optimize_poses
ApplySlamGraph(odom, enable_loop_closure) ==
    LET added == AddAllPoses(SimpleSLAM(APPLY_LOOP_CLOSURE_DISTANCE, APPLY_MIN_TIME_GAP),
                             odom, 1)
    IN  IF enable_loop_closure THEN detect_loop_closures(added) ELSE added

\* apply_slam_optimization: the optimized trajectory it returns
apply_slam_optimization(odom, enable_loop_closure, outcome) ==
    optimize_poses(ApplySlamGraph(odom, enable_loop_closure), outcome)

-----------------------------------------------------------------------------
(* State *)

VARIABLES
    \* interpolate_odometry_data called on its own: arguments and return value
    call_pc, call_odom, call_result,
    \* apply_transform_to_points called on its own: a batch, two matrices, and
    \* what the calls returned (batch by the first matrix, that result by the
    \* second, batch by the product)
    tf_points, tf_first, tf_second, tf_once, tf_twice, tf_composed,
    \* another function called on its own: its arguments, what it returned
    fn_args, fn_result,
    \* convert_bag_to_laz: the arguments and the bag
    arg_mode, arg_slam, odometry_topic, bag_odom, bag_scans,
    \* convert_bag_to_laz: position and local variables
    pc, transform_mode, enable_slam, odom,
    message_count, message_timestamps, message_points_data,
    interp_bound, interp, reference_transform,
    msg_idx, transform_matrix, xyz_list, las,
    \* convert_bag_to_laz: the per-point attributes.  The fields found in the
    \* first message, the intensity and time fields of the points read, the
    \* lists of the second pass, the arrays at the end of the run and the
    \* arrays assigned to the LAS record
    has_intensity, has_pointcloud_time, message_point_fields,
    intensity_list, gps_time_list,
    xyz_array, intensity_array, gps_time_array, out_las,
    \* a SimpleSLAM instance: its fields
    loop_closure_distance, min_time_gap, poses, odometry_edges, loop_closure_edges,
    \* the caller of the instance: its position, its arguments, what the last
    \* call returned
    slam_pc, slam_input, enable_loop_closure, slam_returned,
    \* the stage of the last call made on the instance, and the number of
    \* optimize_poses calls made on it
    slam_phase, optimize_calls,
    \* the add_pose calls made on the instance (argument and returned id), and
    \* the number of detect_loop_closures calls made on it since the last
    \* add_pose call
    add_calls, detect_calls

tfVars == <<tf_points, tf_first, tf_second, tf_once, tf_twice, tf_composed>>

fnVars == <<fn_args, fn_result>>

callVars == <<call_pc, call_odom, call_result, tfVars, fnVars>>

argVars == <<arg_mode, arg_slam, odometry_topic, bag_odom, bag_scans>>

attrVars == <<has_intensity, has_pointcloud_time, message_point_fields,
              intensity_list, gps_time_list,
              xyz_array, intensity_array, gps_time_array, out_las>>

runVars == <<pc, transform_mode, enable_slam, odom,
             message_count, message_timestamps, message_points_data,
             interp_bound, interp, reference_transform,
             msg_idx, transform_matrix, xyz_list, las, attrVars>>

slamFields == <<loop_closure_distance, min_time_gap, poses, odometry_edges,
                loop_closure_edges>>

slamVars == <<slamFields, slam_pc, slam_input, enable_loop_closure, slam_returned,
              slam_phase, optimize_calls, add_calls, detect_calls>>

vars == <<callVars, argVars, runVars, slamVars>>

-----------------------------------------------------------------------------
(* Inputs *)

\* all sequences over S of length n
RECURSIVE SeqsOfLen(_, _)
SeqsOfLen(S, n) ==
    IF n = 0 THEN {<<>>}
    ELSE {Append(s, x) : s \in SeqsOfLen(S, n - 1), x \in S}

SeqsUpTo(S, n) == UNION {SeqsOfLen(S, k) : k \in 0..n}

IsIncreasing(ts) == \A k \in 1..(Len(ts) - 1) : ts[k] < ts[k + 1]

IsNondecreasing(ts) == \A k \in 1..(Len(ts) - 1) : ts[k] <= ts[k + 1]

\* orientations: identity, a non-unit half turn about z, minus identity
QIdentity == QRaw(<<0, 0, 0, 1>>)

QHalfTurnZ2 == QRaw(<<0, 0, 2, 0>>)

QMinusIdentity == QRaw(<<0, 0, 0, -1>>)

CallTimes == {0, 10, 30, 40}

CallQueryTimes == {-5, 0, 10, 15, 40}

CallPositions == {Vec3(0, 0, 0), Vec3(2, 1, 0)}

CallOrientations == {QIdentity, QHalfTurnZ2, QMinusIdentity}

\* strictly increasing timestamp sequences (the order in which a bag yields
\* its messages) of up to n entries
IncreasingSeqs(T, n) == {ts \in SeqsUpTo(T, n) : IsIncreasing(ts)}

\* trajectories over the given timestamps, positions and orientations
TrajectoriesOver(TS, P, Q) ==
    UNION {{[k \in 1..Len(ts) |-> Pose(ts[k], ps[k], qs[k])] :
               ps \in [1..Len(ts) -> P], qs \in [1..Len(ts) -> Q]} : ts \in TS}

CallTrajectories ==
    TrajectoriesOver(IncreasingSeqs(CallTimes, MaxPoses), CallPositions, CallOrientations)

CallQueries == {ts \in SeqsUpTo(CallQueryTimes, 2) : IsNondecreasing(ts)}

-----------------------------------------------------------------------------
(* interpolate_odometry_data as a function of its arguments *)

\* the per-point attributes are not followed
IdleAttr ==
    /\ has_intensity = FALSE /\ has_pointcloud_time = FALSE
    /\ message_point_fields = <<>>
    /\ intensity_list = <<>> /\ gps_time_list = <<>>
    /\ xyz_array = <<>> /\ intensity_array = <<>> /\ gps_time_array = <<>>
    /\ out_las = <<>>

IdleRun ==
    /\ arg_mode = "none" /\ arg_slam = FALSE /\ odometry_topic = FALSE
    /\ bag_odom = <<>> /\ bag_scans = <<>>
    /\ pc = "idle" /\ transform_mode = "none" /\ enable_slam = FALSE /\ odom = <<>>
    /\ message_count = 0 /\ message_timestamps = <<>> /\ message_points_data = <<>>
    /\ interp_bound = FALSE /\ interp = <<>> /\ reference_transform = <<>>
    /\ msg_idx = 0 /\ transform_matrix = <<>> /\ xyz_list = <<>> /\ las = <<>>
    /\ IdleAttr

IdleSlam ==
    /\ loop_closure_distance = 0 /\ min_time_gap = 0
    /\ poses = <<>> /\ odometry_edges = <<>> /\ loop_closure_edges = <<>>
    /\ slam_pc = "idle" /\ slam_input = <<>> /\ enable_loop_closure = FALSE
    /\ slam_returned = <<>>
    /\ slam_phase = "Empty" /\ optimize_calls = 0
    /\ add_calls = <<>> /\ detect_calls = 0

IdleTransform ==
    /\ tf_points = <<>> /\ tf_first = <<>> /\ tf_second = <<>>
    /\ tf_once = <<>> /\ tf_twice = <<>> /\ tf_composed = <<>>

IdleInterpolate == call_pc = <<>> /\ call_odom = <<>> /\ call_result = <<>>

IdleFn == fn_args = <<>> /\ fn_result = <<>>

IdleCall == IdleInterpolate /\ IdleTransform /\ IdleFn

InitInterp ==
    /\ call_pc \in CallQueries
    /\ call_odom \in CallTrajectories
    /\ call_result = <<>>
    /\ IdleTransform
    /\ IdleFn
    /\ IdleRun
    /\ IdleSlam

CallInterpolate ==
    /\ call_result = <<>>
    /\ call_result' = <<interpolate_odometry_data(call_pc, call_odom)>>
    /\ UNCHANGED <<call_pc, call_odom, tfVars, fnVars, argVars, runVars, slamVars>>

NextInterp == CallInterpolate

SpecInterp == InitInterp /\ [][NextInterp]_vars

-----------------------------------------------------------------------------
(* apply_transform_to_points as a function of its arguments: a batch is     *)
(* transformed by one matrix and the result by a second, and the batch is   *)
(* transformed by the product of the two                                    *)

\* most points in a batch
MaxPoints == 2

BatchPoints == {Vec3(0, 0, 0), Vec3(1, 0, 0), Vec3(1, 2, 3)}

PointBatches == SeqsUpTo(BatchPoints, MaxPoints)

\* quarter turns about z and about x, as quaternions that are not normalised
QQuarterTurnZ == QRaw(<<0, 0, 1, 1>>)

QQuarterTurnX == QRaw(<<1, 0, 0, 1>>)

TransformTranslations == {Vec3(0, 0, 0), Vec3(1, -2, 3)}

TransformRotations == {QIdentity, QHalfTurnZ2, QQuarterTurnZ, QQuarterTurnX}

\* the matrices create_transform_matrix builds from them
RigidTransforms ==
    {create_transform_matrix(t, q) : t \in TransformTranslations, q \in TransformRotations}

InitTransform ==
    /\ tf_points \in PointBatches
    /\ tf_first \in RigidTransforms
    /\ tf_second \in RigidTransforms
    /\ tf_once = <<>> /\ tf_twice = <<>> /\ tf_composed = <<>>
    /\ IdleInterpolate
    /\ IdleFn
    /\ IdleRun
    /\ IdleSlam

ApplyFirst ==
    /\ tf_once = <<>>
    /\ tf_once' = <<apply_transform_to_points(tf_points, tf_first)>>
    /\ UNCHANGED <<tf_points, tf_first, tf_second, tf_twice, tf_composed>>
    /\ UNCHANGED <<call_pc, call_odom, call_result, fnVars, argVars, runVars, slamVars>>

ApplySecond ==
    /\ tf_once # <<>>
    /\ tf_twice = <<>>
    /\ tf_twice' = <<apply_transform_to_points(tf_once[1], tf_second)>>
    /\ UNCHANGED <<tf_points, tf_first, tf_second, tf_once, tf_composed>>
    /\ UNCHANGED <<call_pc, call_odom, call_result, fnVars, argVars, runVars, slamVars>>

ApplyComposed ==
    /\ tf_composed = <<>>
    /\ tf_composed' = <<apply_transform_to_points(tf_points, MatMul(tf_second, tf_first))>>
    /\ UNCHANGED <<tf_points, tf_first, tf_second, tf_once, tf_twice>>
    /\ UNCHANGED <<call_pc, call_odom, call_result, fnVars, argVars, runVars, slamVars>>

NextTransform ==
    \/ ApplyFirst
    \/ ApplySecond
    \/ ApplyComposed

SpecTransform == InitTransform /\ [][NextTransform]_vars

-----------------------------------------------------------------------------
(* create_transform_matrix as a function of its arguments *)

\* a quarter turn about z as a unit quaternion, (0, 0, 1, 1) / sqrt(2)
QUnitQuarterTurnZ == QUnit(<<0, 0, 1, 1>>)

\* a third of a turn about the diagonal, (1, 1, 1, 1) / 2
QUnitDiagonal == QUnit(<<1, 1, 1, 1>>)

\* the rotation (1, 2, 2, 4) / 5
QUnitOblique == QUnit(<<1, 2, 2, 4>>)

CreatePositions == {Vec3(0, 0, 0), Vec3(1, -2, 3)}

CreateQuaternions ==
    {QIdentity, QHalfTurnZ2, QQuarterTurnX, QUnitQuarterTurnZ, QUnitDiagonal, QUnitOblique,
     QRaw(QZeroVec)}

\* most quarter turns in an Euler angle of the offset
MaxQuarterTurns == 2

\* None, a translation alone, or a translation and three Euler angles
LidarOffsets ==
    {<<>>, << <<1, 0, 2>> >>}
    \cup {<< <<t[1], t[2], t[3], rx, ry, rz>> >> :
             t \in {<<0, 0, 0>>, <<1, 0, 2>>},
             rx \in 0..MaxQuarterTurns, ry \in 0..MaxQuarterTurns, rz \in 0..MaxQuarterTurns}

InitCreate ==
    /\ fn_args \in [position : CreatePositions, quaternion : CreateQuaternions,
                     lidar_offset : LidarOffsets]
    /\ fn_result = <<>>
    /\ IdleInterpolate
    /\ IdleTransform
    /\ IdleRun
    /\ IdleSlam

CallCreateTransformMatrix ==
    /\ fn_result = <<>>
    /\ fn_result' = <<create_transform_matrix_lidar(fn_args.position, fn_args.quaternion,
                                                    fn_args.lidar_offset)>>
    /\ UNCHANGED <<fn_args, call_pc, call_odom, call_result, tfVars, argVars, runVars,
                   slamVars>>

NextCreate == CallCreateTransformMatrix

SpecCreate == InitCreate /\ [][NextCreate]_vars

-----------------------------------------------------------------------------
(* convert_bag_to_laz: inputs *)

\* a point-cloud message.  kind "ok": read_points yields pts (NaN points are
\* skipped by the reader, infinite ones are not); kind "raise": read_points
\* raises; kind "empty": width * height = 0 and no point is read
Scan(t, kind, pts) == [t |-> t, kind |-> kind, pts |-> pts]

OriginPoint == Vec3(0, 0, 0)

InfPoint == <<NonFinite, RZero, RZero>>

ScanContents ==
    { <<"ok", <<OriginPoint>> >>,
      <<"ok", <<Vec3(1, 0, 0), InfPoint, Vec3(0, 1, 0)>> >>,
      <<"ok", <<InfPoint>> >>,
      <<"ok", <<>> >>,
      <<"raise", <<>> >>,
      <<"empty", <<>> >> }

\* point-cloud messages come every 10 s, the first at one of ScanStarts
ScanStarts == {0, 5, 25}

NextScanTimes(scans) ==
    IF scans = <<>> THEN ScanStarts ELSE {scans[Len(scans)].t + 10}

\* odometry messages come every 10 s from time 0; the positions advance
\* along x by one of OdomSteps; the orientations follow one of two patterns
OdomSteps == {1, 3}

QIdentityPattern(k) == QIdentity

QTurningPattern(k) == IF k % 2 = 1 THEN QHalfTurnZ2 ELSE QIdentity

RECURSIVE PathX(_, _)
PathX(steps, k) == IF k <= 1 THEN 0 ELSE PathX(steps, k - 1) + steps[k - 1]

\* the odometry messages of a bag: none, or up to MaxPoses poses
BagOdometry ==
    {<<>>} \cup
    UNION {{[k \in 1..n |-> Pose(10 * (k - 1), Vec3(PathX(steps, k), 0, 0),
                                 IF turning THEN QTurningPattern(k) ELSE QIdentityPattern(k))] :
               steps \in [1..(n - 1) -> OdomSteps], turning \in BOOLEAN} : n \in 1..MaxPoses}

TransformModes == {"none", "global", "local"}

-----------------------------------------------------------------------------
(* convert_bag_to_laz: steps.  bag_odom and bag_scans record the messages   *)
(* read from the bag so far.  An exception that reaches the handler around  *)
(* the conversion (line 2360) ends the run without a file; pc then names    *)
(* the exception.                                                           *)

FatalErrors == {"ZeroDivisionError", "ValueError", "UnboundLocalError"}

Aborted == pc \in FatalErrors

Init ==
    /\ arg_mode \in TransformModes
    /\ arg_slam \in BOOLEAN
    /\ odometry_topic \in BOOLEAN
    /\ bag_odom = <<>>
    /\ bag_scans = <<>>
    /\ pc = "load_odometry"
    /\ transform_mode = arg_mode
    /\ enable_slam = arg_slam
    /\ odom = <<>>
    /\ message_count = 0 /\ message_timestamps = <<>> /\ message_points_data = <<>>
    /\ interp_bound = FALSE /\ interp = <<>> /\ reference_transform = <<>>
    /\ msg_idx = 0 /\ transform_matrix = <<>> /\ xyz_list = <<>> /\ las = <<>>
    /\ IdleAttr
    /\ IdleSlam
    /\ IdleCall

\* a variant that optimizes in every mode
SlamAppliesAnyMode(enable, mode) == enable

\* line 1504: the condition under which the loaded trajectory is optimized
SlamApplies(enable, mode) == enable /\ mode = "global"

\* lines 1490-1514.  collect_odometry_data returns None for a topic without
\* messages; with SLAM in mode global the trajectory is replaced by the
\* result of apply_slam_optimization, which calls optimize_poses once
\* (counted in optimize_calls)
LoadOdometry ==
    /\ pc = "load_odometry"
    /\ pc' = "first_pass"
    /\ IF transform_mode \in {"global", "local"} /\ odometry_topic
       THEN \E msgs \in BagOdometry :
              /\ bag_odom' = msgs
              /\ IF msgs = <<>>
                 THEN /\ transform_mode' = "none"
                      /\ enable_slam' = FALSE
                      /\ odom' = <<>>
                      /\ UNCHANGED optimize_calls
                 ELSE /\ UNCHANGED <<transform_mode, enable_slam>>
                      /\ IF SlamApplies(enable_slam, transform_mode)
                         THEN /\ \E outcome \in SolverOutcomes(ApplySlamGraph(msgs, TRUE)) :
                                    odom' = <<apply_slam_optimization(msgs, TRUE, outcome)>>
                              /\ optimize_calls' = optimize_calls + 1
                         ELSE /\ odom' = <<msgs>>
                              /\ UNCHANGED optimize_calls
       ELSE UNCHANGED <<bag_odom, transform_mode, enable_slam, odom, optimize_calls>>
    /\ UNCHANGED <<arg_mode, arg_slam, odometry_topic, bag_scans>>
    /\ UNCHANGED <<message_count, message_timestamps, message_points_data,
                   interp_bound, interp, reference_transform,
                   msg_idx, transform_matrix, xyz_list, las>>
    /\ UNCHANGED <<callVars, attrVars, slamFields, slam_pc, slam_input, enable_loop_closure,
                   slam_returned, slam_phase, add_calls, detect_calls>>

\* lines 1704-1785, one message of the first pass: the timestamp is appended
\* before the points are read; a read error skips the rest of the iteration;
\* the report on the first three messages divides by width * height
FirstPassMessage ==
    /\ pc = "first_pass"
    /\ message_count < MaxScans
    /\ \E t \in NextScanTimes(bag_scans), c \in ScanContents :
         LET msg == Scan(t, c[1], c[2])
         IN  /\ bag_scans' = Append(bag_scans, msg)
             /\ message_count' = message_count + 1
             /\ message_timestamps' = Append(message_timestamps, msg.t)
             /\ IF msg.kind = "raise"
                THEN UNCHANGED <<message_points_data, pc>>
                ELSE /\ message_points_data' = Append(message_points_data, msg.pts)
                     /\ pc' = IF message_count + 1 <= 3 /\ msg.kind = "empty"
                              THEN "ZeroDivisionError" ELSE pc
    /\ UNCHANGED <<arg_mode, arg_slam, odometry_topic, bag_odom>>
    /\ UNCHANGED <<transform_mode, enable_slam, odom,
                   interp_bound, interp, reference_transform,
                   msg_idx, transform_matrix, xyz_list, las>>
    /\ UNCHANGED <<callVars, attrVars, slamVars>>

\* a variant that keeps the requested mode whatever the interpolation returned
ModeKept(mode, r) == mode

\* lines 1804-1806: the run falls back to mode none on the sentinel
ModeAfterInterpolation(mode, r) == IF r.kind = "none" THEN "none" ELSE mode

\* lines 1791-1817, at the end of the bag: interpolation onto the message
\* timestamps, the fall back to mode none, and the reference transform of
\* mode local
PrepareTransform ==
    /\ pc = "first_pass"
    /\ IF transform_mode \in {"global", "local"} /\ odom # <<>>
       THEN LET r == interpolate_odometry_data(message_timestamps, odom[1])
            IN  IF r.kind = "raise"
                THEN /\ pc' = "ValueError"
                     /\ UNCHANGED <<interp_bound, interp, transform_mode, reference_transform>>
                ELSE /\ pc' = "second_pass"
                     /\ interp_bound' = TRUE
                     /\ transform_mode' = ModeAfterInterpolation(transform_mode, r)
                     /\ IF r.kind = "none"
                        THEN /\ interp' = <<>>
                             /\ reference_transform' = <<>>
                        ELSE /\ interp' = <<r.poses>>
                             /\ reference_transform' =
                                  IF transform_mode = "local"
                                  THEN <<MatInv(create_transform_matrix(r.poses[1].p,
                                                                        r.poses[1].q))>>
                                  ELSE <<>>
       ELSE /\ pc' = "second_pass"
            /\ UNCHANGED <<interp_bound, interp, transform_mode, reference_transform>>
    /\ UNCHANGED <<enable_slam, odom, message_count, message_timestamps,
                   message_points_data, msg_idx, transform_matrix, xyz_list, las>>
    /\ UNCHANGED <<callVars, argVars, attrVars, slamVars>>

\* a variant of mode local that applies the inverse reference alone
ScanTransformReferenceOnly(mode, itp, ref, idx) ==
    IF mode = "global" /\ itp # <<>>
    THEN <<create_transform_matrix(itp[1][idx + 1].p, itp[1][idx + 1].q)>>
    ELSE IF mode = "local" /\ itp # <<>>
    THEN <<ref[1]>>
    ELSE <<>>

\* a variant that builds the identity matrix where the code leaves None
ScanTransformIdentity(mode, itp, ref, idx) ==
    IF mode = "global" /\ itp # <<>>
    THEN <<create_transform_matrix(itp[1][idx + 1].p, itp[1][idx + 1].q)>>
    ELSE IF mode = "local" /\ itp # <<>>
    THEN <<MatMul(ref[1], create_transform_matrix(itp[1][idx + 1].p, itp[1][idx + 1].q))>>
    ELSE <<Identity4>>

\* lines 1836-1847: the matrix for message idx (0-based), None in mode none
ScanTransform(mode, itp, ref, idx) ==
    IF mode = "global" /\ itp # <<>>
    THEN <<create_transform_matrix(itp[1][idx + 1].p, itp[1][idx + 1].q)>>
    ELSE IF mode = "local" /\ itp # <<>>
    THEN <<MatMul(ref[1], create_transform_matrix(itp[1][idx + 1].p, itp[1][idx + 1].q))>>
    ELSE <<>>

\* lines 1833-1917, one message of the second pass.  interp_positions is
\* assigned by the preparation block only: reading it unassigned raises
\* UnboundLocalError, which the handler around the conversion reports as a
\* fatal error
SecondPassMessage ==
    /\ pc = "second_pass"
    /\ msg_idx < Len(message_points_data)
    /\ IF transform_mode \in {"global", "local"} /\ ~interp_bound
       THEN /\ pc' = "UnboundLocalError"
            /\ UNCHANGED <<msg_idx, transform_matrix, xyz_list>>
       ELSE LET T == ScanTransform(transform_mode, interp, reference_transform, msg_idx)
                msg_points == message_points_data[msg_idx + 1]
            IN  /\ transform_matrix' = T
                /\ xyz_list' = xyz_list \o
                     (IF Len(msg_points) > 0 /\ T # <<>>
                      THEN apply_transform_to_points(msg_points, T[1])
                      ELSE msg_points)
                /\ msg_idx' = msg_idx + 1
                /\ UNCHANGED pc
    /\ UNCHANGED <<transform_mode, enable_slam, odom, message_count, message_timestamps,
                   message_points_data, interp_bound, interp, reference_transform, las>>
    /\ UNCHANGED <<callVars, argVars, attrVars, slamVars>>

\* lines 1992-2011: rows with a NaN or Inf coordinate are dropped
ValidPoints(points) == SelectSeq(points, VFinite)

\* lines 1928-2070 and 2264: np.min of an empty coordinate array raises; no
\* valid row left returns without a file; otherwise the arrays go to the LAS
\* writer
ConvertAndWrite ==
    /\ pc = "second_pass"
    /\ msg_idx = Len(message_points_data)
    /\ IF Len(xyz_list) = 0
       THEN pc' = "ValueError" /\ UNCHANGED las
       ELSE IF Len(ValidPoints(xyz_list)) = 0
       THEN pc' = "no_points" /\ UNCHANGED las
       ELSE pc' = "done" /\ las' = <<ValidPoints(xyz_list)>>
    /\ UNCHANGED <<transform_mode, enable_slam, odom, message_count, message_timestamps,
                   message_points_data, interp_bound, interp, reference_transform,
                   msg_idx, transform_matrix, xyz_list>>
    /\ UNCHANGED <<callVars, argVars, attrVars, slamVars>>

Next ==
    \/ LoadOdometry
    \/ FirstPassMessage
    \/ PrepareTransform
    \/ SecondPassMessage
    \/ ConvertAndWrite

Spec == Init /\ [][Next]_vars

-----------------------------------------------------------------------------
(* A SimpleSLAM instance and its caller.  The caller is either              *)
(* apply_slam_optimization (slam_pc walks through its calls) or any other   *)
(* code holding the instance (slam_pc = "free": every method may be called  *)
(* at any time, the class has no guard).  slam_phase records the stage of   *)
(* the last call; the class keeps no such field.                            *)

\* the instance as a record of the state variables
Self ==
    [loop_closure_distance |-> loop_closure_distance, min_time_gap |-> min_time_gap,
     poses |-> poses, odometry_edges |-> odometry_edges,
     loop_closure_edges |-> loop_closure_edges]

\* the defaults of SimpleSLAM.__init__
DEFAULT_LOOP_CLOSURE_DISTANCE == 2

DEFAULT_MIN_TIME_GAP == 10

\* most optimize_poses calls followed on one instance
MaxOptimizeCalls == 2

\* most detect_loop_closures calls followed on the same poses
MaxDetectCalls == 2

\* the poses a caller may add
SlamTimes == {0, 20}

SlamPositions == {Vec3(0, 0, 0), Vec3(1, 0, 0), Vec3(4, 0, 0)}

SlamPoses ==
    {Pose(t, p, QIdentity) : t \in SlamTimes, p \in SlamPositions}
    \cup {Pose(0, Vec3(0, 0, 0), QHalfTurnZ2), Pose(20, Vec3(1, 0, 0), QHalfTurnZ2)}
    \cup {Pose(20, <<NonFinite, RZero, RZero>>, QIdentity)}

\* a variant that optimizes again after optimizing
ApplyNextCallAgain(after, added, total, loop_closure) ==
    IF after = "add" /\ added < total THEN "add"
    ELSE IF after = "add" /\ loop_closure THEN "detect"
    ELSE "optimize"

\* lines 711-727: the call apply_slam_optimization makes after the call
\* `after`, having added `added` of `total` poses
ApplyNextCall(after, added, total, loop_closure) ==
    IF after = "add" /\ added < total THEN "add"
    ELSE IF after = "add" /\ loop_closure THEN "detect"
    ELSE IF after \in {"add", "detect"} THEN "optimize"
    ELSE "return"

InitSlam ==
    /\ \/ /\ slam_pc = "free"
          /\ slam_input = <<>>
          /\ enable_loop_closure = FALSE
          /\ \E args \in {<<DEFAULT_LOOP_CLOSURE_DISTANCE, DEFAULT_MIN_TIME_GAP>>,
                          <<APPLY_LOOP_CLOSURE_DISTANCE, APPLY_MIN_TIME_GAP>>} :
                /\ loop_closure_distance = args[1]
                /\ min_time_gap = args[2]
       \/ /\ slam_pc = "add"
          /\ slam_input \in BagOdometry \ {<<>>}
          /\ enable_loop_closure \in BOOLEAN
          /\ loop_closure_distance = APPLY_LOOP_CLOSURE_DISTANCE
          /\ min_time_gap = APPLY_MIN_TIME_GAP
    /\ poses = <<>> /\ odometry_edges = <<>> /\ loop_closure_edges = <<>>
    /\ slam_returned = <<>>
    /\ slam_phase = "Empty" /\ optimize_calls = 0
    /\ add_calls = <<>> /\ detect_calls = 0
    /\ IdleRun
    /\ IdleCall

SetFields(self) ==
    /\ poses' = self.poses
    /\ odometry_edges' = self.odometry_edges
    /\ loop_closure_edges' = self.loop_closure_edges
    /\ UNCHANGED <<loop_closure_distance, min_time_gap>>

CallAddPose ==
    /\ slam_pc \in {"free", "add"}
    /\ Len(poses) < MaxPoses
    /\ \E pose \in IF slam_pc = "add" THEN {slam_input[Len(poses) + 1]}
                   ELSE SlamPoses :
         /\ SetFields(add_pose(Self, pose.t, pose.p, pose.q))
         /\ slam_returned' = <<AddPoseId(Self)>>
         /\ add_calls' = Append(add_calls, [pose |-> pose, returned |-> AddPoseId(Self)])
    /\ slam_pc' = IF slam_pc = "free" THEN "free"
                  ELSE ApplyNextCall("add", Len(poses) + 1, Len(slam_input),
                                     enable_loop_closure)
    /\ slam_phase' = "PosesAdded"
    /\ detect_calls' = 0
    /\ UNCHANGED <<slam_input, enable_loop_closure, optimize_calls>>
    /\ UNCHANGED <<callVars, argVars, runVars>>

\* slam_returned is empty after a call that raised
CallDetectLoopClosures ==
    /\ slam_pc \in {"free", "detect"}
    /\ detect_calls < MaxDetectCalls
    /\ \E raised \in KDTreeOutcomes(Self) :
         IF raised
         THEN /\ UNCHANGED slamFields
              /\ slam_returned' = <<>>
         ELSE /\ SetFields(detect_loop_closures(Self))
              /\ slam_returned' = <<DetectReturn(Self)>>
    /\ detect_calls' = detect_calls + 1
    /\ slam_pc' = IF slam_pc = "free" THEN "free"
                  ELSE ApplyNextCall("detect", Len(poses), Len(slam_input),
                                     enable_loop_closure)
    /\ slam_phase' = "LoopClosuresDetected"
    /\ UNCHANGED <<slam_input, enable_loop_closure, optimize_calls, add_calls>>
    /\ UNCHANGED <<callVars, argVars, runVars>>

CallOptimizePoses ==
    /\ slam_pc \in {"free", "optimize"}
    /\ optimize_calls < MaxOptimizeCalls
    /\ \E outcome \in SolverOutcomes(Self) :
         slam_returned' = <<optimize_poses(Self, outcome)>>
    /\ slam_pc' = IF slam_pc = "free" THEN "free"
                  ELSE ApplyNextCall("optimize", Len(poses), Len(slam_input),
                                     enable_loop_closure)
    /\ slam_phase' = "Optimized"
    /\ optimize_calls' = optimize_calls + 1
    /\ UNCHANGED <<slamFields, slam_input, enable_loop_closure, add_calls, detect_calls>>
    /\ UNCHANGED <<callVars, argVars, runVars>>

NextSlam ==
    \/ CallAddPose
    \/ CallDetectLoopClosures
    \/ CallOptimizePoses

SpecSlam == InitSlam /\ [][NextSlam]_vars

-----------------------------------------------------------------------------
(* Properties of interpolate_odometry_data, checked under SpecInterp *)

Called == call_result # <<>>

Returned == call_result[1]

\* the closed ranges of the query times and of the pose times share a point
RangesIntersect(pc_timestamps, trajectory) ==
    Max2(SeqMin(OdomTimes(trajectory)), SeqMin(pc_timestamps))
        <= Min2(SeqMax(OdomTimes(trajectory)), SeqMax(pc_timestamps))

\* C6: with at least two poses, the call returns the (None, None) sentinel
\* if and only if the closed range of the pose times and the closed range of
\* the query times have an empty intersection
C6_SentinelIffRangesDisjoint ==
    (Called /\ Len(call_odom) >= 2 /\ Len(call_pc) >= 1)
        => ((Returned = Sentinel) <=> ~RangesIntersect(call_pc, call_odom))

\* C7: with fewer than two poses the call returns the (None, None) sentinel
\* for every query set, the empty one included, and does not raise
C7_FewPosesGiveSentinel ==
    (Called /\ Len(call_odom) < 2) => Returned = Sentinel

C7_Witness ==
    /\ Called /\ Len(call_odom) = 0 /\ Len(call_pc) = 0
    /\ Returned = Sentinel

LineThrough(a, b, t) ==
    [c \in 1..3 |-> RAdd(a.p[c], RMul(Rat(t - a.t, b.t - a.t), RSub(b.p[c], a.p[c])))]

\* C9: a query time at or before the first pose time gets exactly the first
\* pose's orientation, one at or after the last pose time exactly the last
\* pose's orientation, and the position for the same query time lies on the
\* line through the two poses at that end (extrapolated, not clamped)
C9_OrientationClampedPositionExtrapolated ==
    (Called /\ Returned.kind = "ok") =>
        LET n == Len(call_odom)
        IN  \A i \in 1..Len(call_pc) :
               /\ call_pc[i] <= call_odom[1].t =>
                     /\ Returned.poses[i].q = call_odom[1].q
                     /\ Returned.poses[i].p = LineThrough(call_odom[1], call_odom[2], call_pc[i])
               /\ call_pc[i] >= call_odom[n].t =>
                     /\ Returned.poses[i].q = call_odom[n].q
                     /\ Returned.poses[i].p =
                           LineThrough(call_odom[n - 1], call_odom[n], call_pc[i])

C9_Witness ==
    /\ Called /\ Returned.kind = "ok"
    /\ \E i \in 1..Len(call_pc) :
          /\ call_pc[i] < call_odom[1].t
          /\ Returned.poses[i].p # call_odom[1].p
          /\ Returned.poses[i].q = QHalfTurnZ2

-----------------------------------------------------------------------------
(* Properties of convert_bag_to_laz, checked under Spec *)

\* the messages whose points were read, in bag order
ReadScans(scans) == SelectSeq(scans, LAMBDA m : m.kind # "raise")

\* the points read from the bag, in the order of scans and points
ReadPoints(scans) == Flatten([k \in 1..Len(ReadScans(scans)) |-> ReadScans(scans)[k].pts])

\* the second pass has started or the run has ended
PastFirstPass == pc \in {"second_pass", "done", "no_points"} \/ Aborted

\* the points of one scan mapped through the transform built from the
\* trajectory pose interpolated at the scan's own timestamp
GlobalImage(scan) ==
    IF Len(scan.pts) = 0 THEN <<>>
    ELSE apply_transform_to_points(
             scan.pts,
             create_transform_matrix(InterpPosition(odom[1], scan.t),
                                     InterpOrientation(odom[1], scan.t)))

\* C1: in mode global with a usable trajectory, the output points of every
\* scan are the scan's input points mapped through the rigid transform built
\* from the trajectory pose interpolated at that scan's capture timestamp
C1_GlobalScansUseOwnPose ==
    (transform_mode = "global" /\ interp # <<>> /\ PastFirstPass) =>
        xyz_list = Flatten([k \in 1..msg_idx |-> GlobalImage(ReadScans(bag_scans)[k])])

\* the scenario of C1 and C2: poses at t = 0, 10, 20 at (0,0,0), (1,0,0),
\* (2,0,0) with identity orientation, one sensor-origin point per scan
ScenarioOdometry ==
    [k \in 1..3 |-> Pose(10 * (k - 1), Vec3(k - 1, 0, 0), QIdentity)]

ScenarioScans ==
    [k \in 1..3 |-> Scan(10 * (k - 1), "ok", <<OriginPoint>>)]

LocalScenarioDone ==
    /\ arg_mode = "local" /\ odometry_topic
    /\ bag_odom = ScenarioOdometry /\ bag_scans = ScenarioScans
    /\ pc = "done"

\* C2 as stated: in mode local, in the scenario, every output point is (0,0,0)
C2_LocalScenarioAllOrigin ==
    LocalScenarioDone => \A k \in 1..Len(las[1]) : las[1][k] = OriginPoint

\* C2 as the code has it: in mode local, in the scenario, the output points
\* are (0,0,0), (1,0,0), (2,0,0): the sensor origin of each scan in the frame
\* of the first scan
C2_LocalScenarioRelativeToFirst ==
    LocalScenarioDone => las[1] = <<Vec3(0, 0, 0), Vec3(1, 0, 0), Vec3(2, 0, 0)>>

C2_Witness ==
    /\ LocalScenarioDone
    /\ reference_transform = <<Identity4>>
    /\ Len(las[1]) = 3

\* every message of the bag is readable and holds a valid point
EveryScanValid(scans) ==
    /\ Len(scans) >= 1
    /\ \A k \in 1..Len(scans) :
          scans[k].kind = "ok" /\ \E j \in 1..Len(scans[k].pts) : VFinite(scans[k].pts[j])

RunEnded == pc \in {"done", "no_points"} \/ Aborted

\* C3: whatever the mode, the SLAM flag and the odometry, a run over a bag
\* whose messages all hold a readable valid point ends with the write of the
\* output cloud, and when no trajectory is available the points written are
\* the points read, untransformed
C3_ValidBagReachesWrite ==
    (RunEnded /\ EveryScanValid(bag_scans)) =>
        /\ pc = "done"
        /\ interp = <<>> => las[1] = ValidPoints(ReadPoints(bag_scans))

\* the (None, None) sentinel came back from interpolate_odometry_data
SentinelReturned == interp_bound /\ interp = <<>>

\* C4: after the sentinel in mode global or local the run is in mode none, no
\* transform matrix is built for any scan, the points accumulated are the
\* points read, and they are what is written
C4_SentinelFallsBackToNone ==
    SentinelReturned =>
        /\ transform_mode = "none"
        /\ transform_matrix = <<>>
        /\ xyz_list = Flatten(SubSeq(message_points_data, 1, msg_idx))
        /\ pc = "done" => las[1] = ValidPoints(Flatten(message_points_data))
        /\ Aborted => Flatten(message_points_data) = <<>>

C4_Witness ==
    /\ SentinelReturned
    /\ arg_mode = "global"
    /\ Len(odom[1]) = 3
    /\ bag_scans[1].t = 25
    /\ pc = "done"
    /\ Len(las[1]) >= 3

\* C5: in mode none no transform is built for any scan, and the output points
\* are the points read from the bag with their coordinates, in the order in
\* which scans and points were read (rows with an infinite coordinate dropped)
C5_ModeNonePassesThrough ==
    transform_mode = "none" =>
        /\ transform_matrix = <<>>
        /\ PastFirstPass =>
              xyz_list = Flatten(SubSeq(message_points_data, 1, msg_idx))
        /\ pc = "done" => las[1] = ValidPoints(ReadPoints(bag_scans))

C5_Witness ==
    /\ arg_mode = "none"
    /\ pc = "done"
    /\ Len(bag_scans) = 3
    /\ bag_scans[2].kind = "raise"
    /\ Len(las[1]) = 3
    /\ Len(xyz_list) = 4

-----------------------------------------------------------------------------
(* Properties of SimpleSLAM, checked under SpecSlam *)

SlamRank(phase) ==
    CASE phase = "Empty" -> 0
      [] phase = "PosesAdded" -> 1
      [] phase = "LoopClosuresDetected" -> 2
      [] phase = "Optimized" -> 3

\* C10 as stated: whatever calls are made on an instance, its stage never
\* goes back and it is optimized at most once
C10_ForwardOnly ==
    [][SlamRank(slam_phase') >= SlamRank(slam_phase) /\ optimize_calls' <= 1]_vars

IsPrefix(a, b) == Len(a) <= Len(b) /\ SubSeq(b, 1, Len(a)) = a

\* C10 as the code has it: under every caller the poses and the sequential
\* edges of an instance only grow; the stage never goes back and the instance
\* is optimized at most once when the calls are those of
\* apply_slam_optimization; the class itself accepts every call at every stage
C10_ForwardOnlyInApply ==
    [][/\ IsPrefix(poses, poses')
       /\ IsPrefix(odometry_edges, odometry_edges')
       /\ slam_pc # "free" =>
             (SlamRank(slam_phase') >= SlamRank(slam_phase) /\ optimize_calls' <= 1)]_vars

C10_Witness ==
    /\ slam_pc = "return"
    /\ slam_phase = "Optimized"
    /\ optimize_calls = 1
    /\ Len(poses) = 3
    /\ loop_closure_edges # <<>>

\* the sequential edges of a graph of n poses
ChainEdges(n) == [k \in 1..(n - 1) |-> <<k - 1, k>>]

\* C11: after N add_pose calls on a fresh instance the k-th call returned
\* k-1, the pose list holds the N poses passed, in call order, and the
\* sequential edges are exactly (0,1), (1,2), ..., (N-2,N-1), none when N < 2
C11_AddPoseSequence ==
    /\ Len(poses) = Len(add_calls)
    /\ \A k \in 1..Len(add_calls) :
          /\ add_calls[k].returned = k - 1
          /\ poses[k] = add_calls[k].pose
    /\ odometry_edges = ChainEdges(Len(add_calls))

C11_Witness ==
    /\ Len(add_calls) = 3
    /\ add_calls[1].pose # add_calls[2].pose
    /\ add_calls[2].pose # add_calls[3].pose
    /\ odometry_edges = << <<0, 1>>, <<1, 2>> >>

\* the stored loop-closure edges
StoredEdges == {loop_closure_edges[k] : k \in 1..Len(loop_closure_edges)}

\* poses i and j (0-based ids) are at most loop_closure_distance apart
WithinDistance(i, j) ==
    /\ VFinite(poses[i + 1].p) /\ VFinite(poses[j + 1].p)
    /\ ~RLess(RInt(loop_closure_distance * loop_closure_distance),
              Dist2(poses[i + 1].p, poses[j + 1].p))

\* poses i and j are at least min_time_gap apart in time
TimeGapReached(i, j) == Abs(poses[i + 1].t - poses[j + 1].t) >= min_time_gap

\* C12: every stored loop-closure edge (i, j, confidence) has i < j, poses at
\* most loop_closure_distance apart, timestamps at least min_time_gap apart,
\* and 0.3 < confidence <= 1
C12_StoredEdgesSeparated ==
    \A e \in StoredEdges :
        /\ 0 <= e[1] /\ e[1] < e[2] /\ e[2] < Len(poses)
        /\ WithinDistance(e[1], e[2])
        /\ TimeGapReached(e[1], e[2])
        /\ RLess(Rat(3, 10), e[3]) /\ ~RLess(ROne, e[3])

C12_Witness ==
    /\ slam_phase = "LoopClosuresDetected"
    /\ \E e \in StoredEdges : RLess(e[3], ROne)
    /\ \E i, j \in 0..(Len(poses) - 1) :
          i < j /\ WithinDistance(i, j) /\ TimeGapReached(i, j)
                /\ \A e \in StoredEdges : <<e[1], e[2]>> # <<i, j>>

DetectReturned == slam_phase = "LoopClosuresDetected" /\ slam_returned # <<>>

\* the entries of the returned list for the pair (i, j)
ReturnedFor(i, j) ==
    {k \in 1..Len(slam_returned[1]) :
        slam_returned[1][k][1] = i /\ slam_returned[1][k][2] = j}

\* exactly one returned edge for (i, j), of confidence c
OneEdge(i, j, c) ==
    /\ Cardinality(ReturnedFor(i, j)) = 1
    /\ \A k \in ReturnedFor(i, j) : slam_returned[1][k][3] = c

Coincide(i, j) == VFinite(poses[i + 1].p) /\ poses[i + 1].p = poses[j + 1].p

OneApart(i, j) ==
    /\ VFinite(poses[i + 1].p) /\ VFinite(poses[j + 1].p)
    /\ Dist2(poses[i + 1].p, poses[j + 1].p) = ROne

\* what C14 says of the pair (i, j)
PairOutcome(i, j) ==
    /\ (~TimeGapReached(i, j) \/ ~WithinDistance(i, j)) => ReturnedFor(i, j) = {}
    /\ (TimeGapReached(i, j) /\ Coincide(i, j)) => OneEdge(i, j, ROne)
    /\ (TimeGapReached(i, j) /\ OneApart(i, j) /\ loop_closure_distance = 3)
          => OneEdge(i, j, Rat(2, 3))

\* C14 as stated: on a graph of exactly two poses detect_loop_closures
\* returns no edge when the time gap is below min_time_gap or the distance
\* above loop_closure_distance, and one edge when the gap is reached and the
\* poses are close: confidence 1 for equal positions, 1 - 1/3 for positions
\* 1 apart with loop_closure_distance 3
C14_TwoPosesOneEdge ==
    (DetectReturned /\ Len(poses) = 2) => PairOutcome(0, 1)

\* C14 as the code has it: on a graph of exactly two poses the call returns
\* no edge at all; on a graph of three or more poses every pair i < j is
\* treated as C14 says of the two poses
C14_ThreePosesPairwise ==
    /\ (DetectReturned /\ Len(poses) = 2) => slam_returned[1] = <<>>
    /\ (DetectReturned /\ Len(poses) >= 3) =>
          \A i, j \in 0..(Len(poses) - 1) : i < j => PairOutcome(i, j)

C14_Witness ==
    /\ DetectReturned
    /\ Len(poses) = 3
    /\ loop_closure_distance = 3
    /\ \E i, j \in 0..2 : i < j /\ TimeGapReached(i, j) /\ Coincide(i, j)
    /\ \E i, j \in 0..2 : i < j /\ TimeGapReached(i, j) /\ OneApart(i, j)
    /\ \E i, j \in 0..2 : i < j /\ ~TimeGapReached(i, j) /\ WithinDistance(i, j)
    /\ Len(slam_returned[1]) = 2

\* C15: on a graph of fewer than three poses detect_loop_closures returns an
\* empty list without raising, and the graph then holds no loop-closure edge
C15_FewPosesNoEdge ==
    (slam_phase = "LoopClosuresDetected" /\ Len(poses) < 3) =>
        /\ slam_returned = << <<>> >>
        /\ loop_closure_edges = <<>>

C15_Witness ==
    /\ slam_phase = "LoopClosuresDetected"
    /\ Len(poses) = 2
    /\ TimeGapReached(0, 1)
    /\ Coincide(0, 1)
    /\ slam_returned = << <<>> >>

\* the pairs the current poses and parameters admit: i < j, inside the
\* radius, across the time gap, and nearer than 0.7 of the radius (which is
\* confidence > 0.3)
AdmittedPairs ==
    {ij \in (0..(Len(poses) - 1)) \X (0..(Len(poses) - 1)) :
        /\ ij[1] < ij[2]
        /\ WithinDistance(ij[1], ij[2])
        /\ TimeGapReached(ij[1], ij[2])
        /\ RLess(RMul(RInt(100), Dist2(poses[ij[1] + 1].p, poses[ij[2] + 1].p)),
                 RInt(49 * loop_closure_distance * loop_closure_distance))}

\* the confidence c of edge e is the one its poses give:
\* ((1 - c) * loop_closure_distance)^2 is their squared distance
ConfidenceFromPoses(e) ==
    LET d == RMul(RSub(ROne, e[3]), RInt(loop_closure_distance))
    IN  RMul(d, d) = Dist2(poses[e[1] + 1].p, poses[e[2] + 1].p)

\* C16: after a detect_loop_closures call on three or more poses the stored
\* edges are the list returned, hold each pair the current poses and
\* parameters admit once and nothing else, whatever earlier calls stored;
\* a second call on the same poses leaves the stored edges as they were
C16_EdgesRebuiltFromPoses ==
    (DetectReturned /\ Len(poses) >= 3) =>
        /\ loop_closure_edges = slam_returned[1]
        /\ {<<e[1], e[2]>> : e \in StoredEdges} = AdmittedPairs
        /\ Len(loop_closure_edges) = Cardinality(AdmittedPairs)
        /\ \A e \in StoredEdges : ConfidenceFromPoses(e)

C16_Witness ==
    /\ DetectReturned
    /\ detect_calls = 2
    /\ Len(poses) = 3
    /\ Len(loop_closure_edges) = 2

\* C17: an optimize_poses call leaves the pose list, the sequential edges and
\* the loop-closure edges of the graph as they were and returns one pose per
\* pose of the graph, in the same order and with the same timestamps
C17_OptimizeLeavesGraph ==
    [][optimize_calls' # optimize_calls =>
          /\ poses' = poses
          /\ odometry_edges' = odometry_edges
          /\ loop_closure_edges' = loop_closure_edges
          /\ slam_returned' # <<>>
          /\ Len(slam_returned'[1]) = Len(poses)
          /\ \A k \in 1..Len(poses) :
                slam_returned'[1][k].t = poses[k].t]_optimize_calls

C17_Witness ==
    /\ slam_phase = "Optimized"
    /\ Len(poses) = 3
    /\ loop_closure_edges # <<>>
    /\ \E k \in 1..3 : slam_returned[1][k].p # poses[k].p
    /\ \A k \in 1..3 : slam_returned[1][k].t = poses[k].t

\* a residual at the start of the solver is not finite: a sequential edge
\* has an end whose position is not finite
StartNotFinite ==
    \E k \in 1..(Len(poses) - 1) : ~VFinite(poses[k].p) \/ ~VFinite(poses[k + 1].p)

\* C18: optimize_poses always returns a trajectory of as many poses as the
\* graph holds, and returns the poses of the graph themselves when there are
\* fewer than two of them or the solver raised
C18_OptimizeAlwaysReturns ==
    slam_phase = "Optimized" =>
        /\ slam_returned # <<>>
        /\ Len(slam_returned[1]) = Len(poses)
        /\ (Len(poses) < 2 \/ StartNotFinite) => slam_returned[1] = poses

C18_Witness ==
    /\ slam_phase = "Optimized"
    /\ Len(poses) >= 2
    /\ StartNotFinite
    /\ slam_returned[1] = poses

\* optimize_poses has just run the solver on finite poses without
\* loop-closure edges
OptimizedWithoutLoopClosures ==
    /\ slam_phase = "Optimized"
    /\ loop_closure_edges = <<>>
    /\ Len(poses) >= 2
    /\ ~StartNotFinite

\* the residual vector at the poses of the graph
StartResiduals == _pose_graph_residuals(Self, InitialParams(Self))

StartResidualsZero == \A k \in 1..Len(StartResiduals) : StartResiduals[k] = RZero

\* the returned poses have the positions and the rotations of the graph's
ReturnedUnchanged ==
    \A k \in 1..Len(poses) :
        /\ slam_returned[1][k].p = poses[k].p
        /\ SameRotation(slam_returned[1][k].q, poses[k].q)

\* consecutive poses have the same x, y, z quaternion components
SteadyOrientation ==
    \A k \in 1..(Len(poses) - 1) :
        \A c \in 1..3 : poses[k].q.v[c] = poses[k + 1].q.v[c]

\* C19 as stated: for any trajectory without loop-closure edges the
\* residuals at the poses themselves are all zero and optimize_poses returns
\* the positions and orientations unchanged
C19_NoLoopClosuresUnchanged ==
    OptimizedWithoutLoopClosures => (StartResidualsZero /\ ReturnedUnchanged)

\* C19 as the code has it: without loop-closure edges the residuals at the
\* poses themselves are all zero exactly when consecutive poses have the
\* same x, y, z quaternion components, and then optimize_poses returns the
\* positions unchanged and the orientations normalised
C19_SteadyOrientationUnchanged ==
    OptimizedWithoutLoopClosures =>
        /\ StartResidualsZero <=> SteadyOrientation
        /\ SteadyOrientation => ReturnedUnchanged

C19_Witness ==
    /\ OptimizedWithoutLoopClosures
    /\ Len(poses) = 3
    /\ SteadyOrientation
    /\ poses[1].p # poses[2].p /\ poses[2].p # poses[3].p
    /\ poses[1].q = QHalfTurnZ2
    /\ ReturnedUnchanged

-----------------------------------------------------------------------------
(* Properties of apply_transform_to_points, checked under SpecTransform *)

\* C20: a batch transformed by T1 and then by T2 equals the batch
\* transformed by the product T2 . T1, and every call returns as many points
\* as it was given
C20_TransformsCompose ==
    /\ tf_once # <<>> => Len(tf_once[1]) = Len(tf_points)
    /\ tf_twice # <<>> => Len(tf_twice[1]) = Len(tf_points)
    /\ tf_composed # <<>> => Len(tf_composed[1]) = Len(tf_points)
    /\ (tf_twice # <<>> /\ tf_composed # <<>>) => tf_twice[1] = tf_composed[1]

C20_Witness ==
    /\ tf_twice # <<>> /\ tf_composed # <<>>
    /\ tf_points = <<Vec3(1, 2, 3), Vec3(1, 0, 0)>>
    /\ tf_first = create_transform_matrix(Vec3(1, -2, 3), QQuarterTurnZ)
    /\ tf_second = create_transform_matrix(Vec3(1, -2, 3), QQuarterTurnX)
    /\ MatMul(tf_second, tf_first) # MatMul(tf_first, tf_second)
    /\ tf_twice[1] # tf_once[1]
    /\ tf_twice[1] = tf_composed[1]

-----------------------------------------------------------------------------
(* slerp_quaternions as a function of its arguments *)

\* within DOT_THRESHOLD of the identity: dot = 50 / sqrt(2501) > 0.9995
QNearIdentity == QRaw(<<0, 0, 1, 50>>)

\* the same rotation with the opposite sign
QMinusNearIdentity == QRaw(<<0, 0, -1, -50>>)

SlerpQuaternions ==
    {QIdentity, QMinusIdentity, QHalfTurnZ2, QQuarterTurnZ, QQuarterTurnX,
     QNearIdentity, QMinusNearIdentity, QRaw(QZeroVec)}

\* t runs over 0, 1/MaxSlerpSteps, ..., 1
MaxSlerpSteps == 2

InitSlerp ==
    /\ fn_args \in [q1 : SlerpQuaternions, q2 : SlerpQuaternions,
                     tn : 0..MaxSlerpSteps, td : {MaxSlerpSteps}]
    /\ fn_result = <<>>
    /\ IdleInterpolate
    /\ IdleTransform
    /\ IdleRun
    /\ IdleSlam

CallSlerp ==
    /\ fn_result = <<>>
    /\ fn_result' = <<slerp_quaternions(fn_args.q1, fn_args.q2, fn_args.tn, fn_args.td)>>
    /\ UNCHANGED <<fn_args, call_pc, call_odom, call_result, tfVars, argVars, runVars,
                   slamVars>>

NextSlerp == CallSlerp

SpecSlerp == InitSlerp /\ [][NextSlerp]_vars

-----------------------------------------------------------------------------
(* GPS time normalisation of convert_bag_to_laz, lines 2200-2216, and of
   test_gps_normalization, as a function of gps_time_array *)

\* the value above which the minimum GPS time is taken for an absolute time
GPS_TIME_LIMIT == 100

\* a variant that also normalises when the minimum is exactly the limit
NormalizeGpsTimeFromLimit(times) ==
    IF \A k \in 1..Len(times) : times[k] = 0 THEN times
    ELSE IF SeqMax(times) < 1 THEN times
    ELSE IF SeqMin(times) >= GPS_TIME_LIMIT
    THEN [k \in 1..Len(times) |-> times[k] - SeqMin(times)]
    ELSE times

\* the chain of lines 2200-2216: all zero, or maximum below 1, or minimum
\* at most 100 leave the array alone (with a message); otherwise the
\* minimum is subtracted
NormalizeGpsTime(times) ==
    IF \A k \in 1..Len(times) : times[k] = 0 THEN times
    ELSE IF SeqMax(times) < 1 THEN times
    ELSE IF SeqMin(times) > GPS_TIME_LIMIT
    THEN [k \in 1..Len(times) |-> times[k] - SeqMin(times)]
    ELSE times

\* most points of a GPS time array
MaxGpsTimes == 3

\* GPS times in seconds: relative, at the limit, absolute
GpsTimes == {-5, 0, 50, 100, 101, 150, 1728312456}

InitGps ==
    /\ fn_args \in [gps_time_array : SeqsUpTo(GpsTimes, MaxGpsTimes) \ {<<>>}]
    /\ fn_result = <<>>
    /\ IdleInterpolate
    /\ IdleTransform
    /\ IdleRun
    /\ IdleSlam

CallNormalizeGpsTime ==
    /\ fn_result = <<>>
    /\ fn_result' = <<NormalizeGpsTime(fn_args.gps_time_array)>>
    /\ UNCHANGED <<fn_args, call_pc, call_odom, call_result, tfVars, argVars, runVars,
                   slamVars>>

NextGps == CallNormalizeGpsTime

SpecGps == InitGps /\ [][NextGps]_vars

-----------------------------------------------------------------------------
(* LAS scale and offset, src/test_optimization.py.  A length is a pair
   <<km, mm>> standing for km * 10^6 + mm millimetres with 0 <= mm < 10^6,
   an encoded integer a pair <<hi, lo>> standing for hi * 10^6 + lo, so that
   values beyond 32 bits are exact *)

Million == 1000000

\* the length of m metres and mm millimetres
Metres(m, mm) == <<m \div 1000, (m % 1000) * 1000 + mm>>

PairLess(a, b) == a[1] < b[1] \/ (a[1] = b[1] /\ a[2] < b[2])

PairLeq(a, b) == a = b \/ PairLess(a, b)

PairSub(a, b) ==
    IF a[2] >= b[2] THEN <<a[1] - b[1], a[2] - b[2]>>
    ELSE <<a[1] - b[1] - 1, a[2] + Million - b[2]>>

RECURSIVE PairMin(_)
PairMin(s) == IF Len(s) = 1 THEN s[1]
              ELSE LET m == PairMin(Tail(s)) IN IF PairLess(s[1], m) THEN s[1] ELSE m

RECURSIVE PairMax(_)
PairMax(s) == IF Len(s) = 1 THEN s[1]
              ELSE LET m == PairMax(Tail(s)) IN IF PairLess(m, s[1]) THEN s[1] ELSE m

\* a variant that always answers the millimetre scale
ScaleOffsetAlwaysMillimetre(coords_array) ==
    LET min_val == PairMin(coords_array)
    IN  [scale |-> 1, offset |-> <<min_val[1], (min_val[2] \div 1000) * 1000>>]

\* calculate_optimal_scale_offset: the scale in millimetres (1, 10, 100,
\* 1000 for 0.001, 0.01, 0.1, 1.0) and the offset np.floor(min_val);
\* required_scale = coord_range / 2_000_000_000 is at most 0.001, 0.01, 0.1
\* exactly when coord_range is at most 2 * 10^6, 2 * 10^7, 2 * 10^8 metres
calculate_optimal_scale_offset(coords_array) ==
    LET min_val == PairMin(coords_array)
        max_val == PairMax(coords_array)
        coord_range == PairSub(max_val, min_val)
        scale == IF ~PairLess(<<0, 0>>, coord_range) THEN 1
                 ELSE IF PairLeq(coord_range, Metres(2000000, 0)) THEN 1
                 ELSE IF PairLeq(coord_range, Metres(20000000, 0)) THEN 10
                 ELSE IF PairLeq(coord_range, Metres(200000000, 0)) THEN 100
                 ELSE 1000
    IN  [scale |-> scale, offset |-> <<min_val[1], (min_val[2] \div 1000) * 1000>>]

\* ((coords - offset) / scale).astype(np.int64) for one coordinate, which
\* truncates toward zero
Encode(c, offset, scale) ==
    LET Div(d) == <<d[1] \div scale,
                    (d[1] % scale) * (Million \div scale) + d[2] \div scale>>
    IN  IF PairLeq(offset, c) THEN Div(PairSub(c, offset))
        ELSE LET e == Div(PairSub(offset, c))
             IN  IF e[2] = 0 THEN <<0 - e[1], 0>> ELSE <<0 - e[1] - 1, Million - e[2]>>

\* 2_147_483_647 and -2_147_483_648
Int32Max == <<2147, 483647>>

Int32Min == <<-2148, 516352>>

\* validate_las_encoding: TRUE when it returns True, FALSE when it raises
\* ValueError
validate_las_encoding(coords, offset, scale) ==
    LET encoded == [k \in 1..Len(coords) |-> Encode(coords[k], offset, scale)]
    IN  ~(PairLess(Int32Max, PairMax(encoded)) \/ PairLess(PairMin(encoded), Int32Min))

\* most coordinates of an array
MaxCoords == 2

\* coordinates from a local frame to ranges beyond 32 bits
Coordinates ==
    {Metres(0, 0), Metres(-101, 500), Metres(500000, 250), Metres(2000000, 0),
     Metres(2000001, 0), Metres(20000000, 1), Metres(200000000, 999),
     Metres(2000000000, 0), Metres(2147483647, 999), Metres(-1500000000, 0),
     Metres(1500000000, 0)}

InitScale ==
    /\ fn_args \in [coords_array : SeqsUpTo(Coordinates, MaxCoords) \ {<<>>}]
    /\ fn_result = <<>>
    /\ IdleInterpolate
    /\ IdleTransform
    /\ IdleRun
    /\ IdleSlam

\* scale, offset = calculate_optimal_scale_offset(coords);
\* validate_las_encoding(coords, offset, scale)
CallScaleOffset ==
    /\ fn_result = <<>>
    /\ LET so == calculate_optimal_scale_offset(fn_args.coords_array)
       IN  fn_result' = <<[scale |-> so.scale, offset |-> so.offset,
                           valid |-> validate_las_encoding(fn_args.coords_array,
                                                           so.offset, so.scale)]>>
    /\ UNCHANGED <<fn_args, call_pc, call_odom, call_result, tfVars, argVars, runVars,
                   slamVars>>

NextScale == CallScaleOffset

SpecScale == InitScale /\ [][NextScale]_vars

-----------------------------------------------------------------------------
(* detect_loop_closures with and without point clouds on the same graph *)

\* the cloud of a pose: None, empty, or one or two points
PoseClouds ==
    {<<>>, << <<>> >>, << <<Vec3(1, 0, 0)>> >>, << <<Vec3(0, 2, 0)>> >>,
     << <<Vec3(1, 0, 0), Vec3(3, 0, 0)>> >>}

\* the poses of the graph: 20 s apart, each at one of three places on a line
CloudGraphs ==
    UNION {{[k \in 1..n |-> Pose(20 * (k - 1), xs[k], QIdentity)] :
               xs \in [1..n -> {Vec3(0, 0, 0), Vec3(1, 0, 0), Vec3(2, 0, 0)}]} : n \in 2..3}

\* point_clouds: None, or a list with a cloud for the first poses or for all
PointCloudLists(n) ==
    {<<>>} \cup {<<pcs>> : pcs \in SeqsOfLen(PoseClouds, n - 1) \cup SeqsOfLen(PoseClouds, n)}

InitClouds ==
    /\ \E ps \in CloudGraphs :
          fn_args \in [self : {AddAllPoses(SimpleSLAM(DEFAULT_LOOP_CLOSURE_DISTANCE,
                                                     DEFAULT_MIN_TIME_GAP), ps, 1)},
                       point_clouds : PointCloudLists(Len(ps))]
    /\ fn_result = <<>>
    /\ IdleInterpolate
    /\ IdleTransform
    /\ IdleRun
    /\ IdleSlam

\* detect_loop_closures() and detect_loop_closures(point_clouds) on the same
\* instance; upper names the pairs whose similarity is taken at its upper
\* bound
CallDetectBothWays ==
    /\ fn_result = <<>>
    /\ \E upper \in SUBSET {<<0, 1>>, <<0, 2>>, <<1, 2>>} :
          fn_result' = <<[without |-> DetectReturn(fn_args.self),
                          with |-> DetectReturnWithClouds(fn_args.self,
                                                          fn_args.point_clouds, upper)]>>
    /\ UNCHANGED <<fn_args, call_pc, call_odom, call_result, tfVars, argVars, runVars,
                   slamVars>>

NextClouds == CallDetectBothWays

SpecClouds == InitClouds /\ [][NextClouds]_vars

-----------------------------------------------------------------------------
(* convert_bag_to_laz: the per-point attributes.  The steps above follow    *)
(* the coordinates; the steps below follow the intensity and GPS time of    *)
(* the points as well, from the start of the second pass of a run in mode   *)
(* none whose messages were all read.  Times are rationals.                 *)

\* a point as read from a message: coordinates, intensity field, time field
FullPoint(p, i, t) == [p |-> p, i |-> i, t |-> RInt(t)]

\* the contents of a message
AttrScanContents ==
    { <<>>,
      <<FullPoint(Vec3(1, 0, 0), 10, 3)>>,
      <<FullPoint(Vec3(0, 1, 0), 20, 1)>>,
      <<FullPoint(Vec3(0, 0, 2), 30, 150), FullPoint(InfPoint, 40, 120)>>,
      <<FullPoint(InfPoint, 50, 2)>>,
      <<FullPoint(Vec3(2, 2, 0), 60, 2), FullPoint(Vec3(3, 0, 0), 70, 2)>> }

\* the time of the first message
AttrScanStarts == {0, 200}

RECURSIVE RSeqMin(_)
RSeqMin(s) == IF Len(s) = 1 THEN s[1]
              ELSE LET m == RSeqMin(Tail(s)) IN IF RLess(s[1], m) THEN s[1] ELSE m

RECURSIVE RSeqMax(_)
RSeqMax(s) == IF Len(s) = 1 THEN s[1]
              ELSE LET m == RSeqMax(Tail(s)) IN IF RLess(m, s[1]) THEN s[1] ELSE m

\* np.linspace(start, stop, num)
Linspace(start, stop, num) ==
    [k \in 1..num |->
        IF num = 1 THEN start
        ELSE RAdd(start, RDiv(RMul(RInt(k - 1), RSub(stop, start)), RInt(num - 1)))]

\* lines 2099-2118, with the ROS time: the times are replaced by a linear
\* progression from the smallest to the largest, or over 0.1 s per message
\* when they are all equal
SequentialTime(gps, messages) ==
    IF RLess(RZero, RSub(RSeqMax(gps), RSeqMin(gps)))
    THEN Linspace(RSeqMin(gps), RSeqMax(gps), Len(gps))
    ELSE Linspace(gps[1], RAdd(gps[1], Rat(messages, 10)), Len(gps))

\* np.all(np.diff(gps_time_array) >= 0)
MonotonicIncreasing(gps) == \A k \in 1..(Len(gps) - 1) : ~RLess(gps[k + 1], gps[k])

\* np.argsort(gps_time_array) as 1-based indices; equal times keep their
\* order, as the insertion sort numpy uses on short arrays leaves them
RECURSIVE ArgsortFrom(_, _)
ArgsortFrom(gps, chosen) ==
    IF Len(chosen) = Len(gps) THEN chosen
    ELSE LET rest == (1..Len(gps)) \ {chosen[k] : k \in 1..Len(chosen)}
             m == CHOOSE k \in rest :
                     \A l \in rest : RLess(gps[k], gps[l]) \/ (gps[k] = gps[l] /\ k <= l)
         IN  ArgsortFrom(gps, Append(chosen, m))

Argsort(gps) == ArgsortFrom(gps, <<>>)

\* array[indices]
TakeIndices(array, indices) == [k \in 1..Len(indices) |-> array[indices[k]]]

\* the indices valid_mask selects, lines 1991-1993
RECURSIVE ValidIndicesFrom(_, _)
ValidIndicesFrom(points, k) ==
    IF k > Len(points) THEN <<>>
    ELSE (IF VFinite(points[k]) THEN <<k>> ELSE <<>>) \o ValidIndicesFrom(points, k + 1)

ValidIndices(points) == ValidIndicesFrom(points, 1)

\* lines 2200-2216 on rational times
NormalizeGpsTimeArray(gps) ==
    IF \A k \in 1..Len(gps) : gps[k] = RZero THEN gps
    ELSE IF RLess(RSeqMax(gps), ROne) THEN gps
    ELSE IF RLess(RInt(GPS_TIME_LIMIT), RSeqMin(gps))
    THEN [k \in 1..Len(gps) |-> RSub(gps[k], RSeqMin(gps))]
    ELSE gps

\* line 1662: the ROS time is used when the points have no time field
use_ros_time == ~has_pointcloud_time

\* the state at the start of the second pass
InitAttr ==
    /\ has_intensity \in BOOLEAN
    /\ has_pointcloud_time \in BOOLEAN
    /\ \E n \in 1..MaxScans, start \in AttrScanStarts :
         \E contents \in [1..n -> AttrScanContents] :
            /\ bag_scans = [k \in 1..n |->
                              Scan(start + 10 * (k - 1), "ok",
                                   [j \in 1..Len(contents[k]) |-> contents[k][j].p])]
            /\ message_count = n
            /\ message_timestamps = [k \in 1..n |-> start + 10 * (k - 1)]
            /\ message_points_data =
                  [k \in 1..n |-> [j \in 1..Len(contents[k]) |-> contents[k][j].p]]
            /\ message_point_fields =
                  [k \in 1..n |-> [j \in 1..Len(contents[k]) |->
                                      [i |-> contents[k][j].i, t |-> contents[k][j].t]]]
    /\ arg_mode = "none" /\ arg_slam = FALSE /\ odometry_topic = FALSE /\ bag_odom = <<>>
    /\ pc = "second_pass" /\ transform_mode = "none" /\ enable_slam = FALSE /\ odom = <<>>
    /\ interp_bound = FALSE /\ interp = <<>> /\ reference_transform = <<>>
    /\ msg_idx = 0 /\ transform_matrix = <<>> /\ xyz_list = <<>> /\ las = <<>>
    /\ intensity_list = <<>> /\ gps_time_list = <<>>
    /\ xyz_array = <<>> /\ intensity_array = <<>> /\ gps_time_array = <<>>
    /\ out_las = <<>>
    /\ IdleSlam
    /\ IdleCall

\* lines 1833-1917, one message of the second pass with its attributes: per
\* point the intensity and the time (the point's time field, or else the
\* message timestamp) are appended; the coordinates of the message follow
AttrSecondPassMessage ==
    /\ pc = "second_pass"
    /\ msg_idx < Len(message_points_data)
    /\ LET T == ScanTransform(transform_mode, interp, reference_transform, msg_idx)
           msg_points == message_points_data[msg_idx + 1]
           fields == message_point_fields[msg_idx + 1]
           message_time == RInt(message_timestamps[msg_idx + 1])
       IN  /\ transform_matrix' = T
           /\ intensity_list' = intensity_list \o
                (IF has_intensity THEN [j \in 1..Len(fields) |-> fields[j].i] ELSE <<>>)
           /\ gps_time_list' = gps_time_list \o
                (IF has_pointcloud_time THEN [j \in 1..Len(fields) |-> fields[j].t]
                 ELSE IF use_ros_time THEN [j \in 1..Len(fields) |-> message_time]
                 ELSE <<>>)
           /\ xyz_list' = xyz_list \o
                (IF Len(msg_points) > 0 /\ T # <<>>
                 THEN apply_transform_to_points(msg_points, T[1])
                 ELSE msg_points)
           /\ msg_idx' = msg_idx + 1
    /\ UNCHANGED <<pc, transform_mode, enable_slam, odom, message_count, message_timestamps,
                   message_points_data, interp_bound, interp, reference_transform, las>>
    /\ UNCHANGED <<has_intensity, has_pointcloud_time, message_point_fields,
                   xyz_array, intensity_array, gps_time_array, out_las>>
    /\ UNCHANGED <<callVars, argVars, slamVars>>

\* lines 1928-2264: conversion to arrays, the filter of invalid coordinates,
\* the assignment of coordinates and intensity to the LAS record (lines
\* 2068-2083), then the processing of the GPS time (sequential time, sort of
\* all arrays by time, normalisation, lines 2091-2216) and its assignment
\* to the LAS record (line 2223), and the write
AttrConvertAndWrite ==
    /\ pc = "second_pass"
    /\ msg_idx = Len(message_points_data)
    /\ IF Len(xyz_list) = 0
       THEN /\ pc' = "ValueError"
            /\ UNCHANGED <<las, xyz_array, intensity_array, gps_time_array, out_las>>
       ELSE LET valid == ValidIndices(xyz_list)
                x1 == TakeIndices(xyz_list, valid)
                i1 == IF has_intensity THEN TakeIndices(intensity_list, valid) ELSE <<>>
                g1 == TakeIndices(gps_time_list, valid)
            IN  IF Len(x1) = 0
                THEN /\ pc' = "no_points"
                     /\ xyz_array' = x1 /\ intensity_array' = i1 /\ gps_time_array' = g1
                     /\ UNCHANGED <<las, out_las>>
                ELSE LET g2 == IF use_ros_time THEN SequentialTime(g1, Len(message_points_data))
                               ELSE g1
                         sorting == ~MonotonicIncreasing(g2)
                         sort_indices == Argsort(g2)
                         g3 == IF sorting THEN TakeIndices(g2, sort_indices) ELSE g2
                         x3 == IF sorting THEN TakeIndices(x1, sort_indices) ELSE x1
                         i3 == IF sorting /\ has_intensity THEN TakeIndices(i1, sort_indices)
                               ELSE i1
                         g4 == NormalizeGpsTimeArray(g3)
                     IN  /\ pc' = "done"
                         /\ xyz_array' = x3 /\ intensity_array' = i3 /\ gps_time_array' = g4
                         /\ las' = <<x1>>
                         /\ out_las' = <<[xyz |-> x1,
                                           intensity |-> IF has_intensity THEN <<i1>> ELSE <<>>,
                                           gps_time |-> <<g4>>]>>
    /\ UNCHANGED <<transform_mode, enable_slam, odom, message_count, message_timestamps,
                   message_points_data, interp_bound, interp, reference_transform,
                   msg_idx, transform_matrix, xyz_list>>
    /\ UNCHANGED <<has_intensity, has_pointcloud_time, message_point_fields,
                   intensity_list, gps_time_list>>
    /\ UNCHANGED <<callVars, argVars, slamVars>>

NextAttr ==
    \/ AttrSecondPassMessage
    \/ AttrConvertAndWrite

SpecAttr == InitAttr /\ [][NextAttr]_vars

-----------------------------------------------------------------------------
(* Properties of create_transform_matrix, checked under SpecCreate *)

\* the 4 x 4 matrix of a rotation block R and a translation t
Homogeneous(R, t) ==
    <<  <<R[1][1], R[1][2], R[1][3], t[1]>>,
        <<R[2][1], R[2][2], R[2][3], t[2]>>,
        <<R[3][1], R[3][2], R[3][3], t[3]>>,
        <<RZero, RZero, RZero, ROne>>  >>

\* the rotations about the axes by k quarter turns
RotX(k) ==
    <<  <<ROne, RZero, RZero>>,
        <<RZero, CosQ(k), RSub(RZero, SinQ(k))>>,
        <<RZero, SinQ(k), CosQ(k)>>  >>

RotY(k) ==
    <<  <<CosQ(k), RZero, SinQ(k)>>,
        <<RZero, ROne, RZero>>,
        <<RSub(RZero, SinQ(k)), RZero, CosQ(k)>>  >>

RotZ(k) ==
    <<  <<CosQ(k), RSub(RZero, SinQ(k)), RZero>>,
        <<SinQ(k), CosQ(k), RZero>>,
        <<RZero, RZero, ROne>>  >>

Mul3(A, B) ==
    [i \in 1..3 |-> [j \in 1..3 |->
        RAdd(RAdd(RMul(A[i][1], B[1][j]), RMul(A[i][2], B[2][j])), RMul(A[i][3], B[3][j]))]]

\* T_offset of C21: translation (tx, ty, tz), rotation Rz(rz) . Ry(ry) . Rx(rx)
OffsetZYX(o) ==
    Homogeneous(Mul3(RotZ(o[6]), Mul3(RotY(o[5]), RotX(o[4]))),
                <<RInt(o[1]), RInt(o[2]), RInt(o[3])>>)

\* the pose transform of the call
PoseTransform == create_transform_matrix(fn_args.position, fn_args.quaternion)

\* C21: with a 6-element offset create_transform_matrix returns
\* T_pose . T_offset, T_offset having the translation of the offset and the
\* rotation Rz(rz) . Ry(ry) . Rx(rx); without offset it returns T_pose, as it
\* does for the all-zero offset
C21_OffsetIsZYX ==
    fn_result # <<>> =>
        /\ fn_args.lidar_offset = <<>> =>
              /\ fn_result[1] = PoseTransform
              /\ fn_result[1] =
                    create_transform_matrix_lidar(fn_args.position, fn_args.quaternion,
                                                  << <<0, 0, 0, 0, 0, 0>> >>)
        /\ (fn_args.lidar_offset # <<>> /\ Len(fn_args.lidar_offset[1]) = 6) =>
              fn_result[1] = MatMul(PoseTransform, OffsetZYX(fn_args.lidar_offset[1]))

\* a quaternion of norm 1
IsUnitQuaternion(q) ==
    /\ q.arc = <<>>
    /\ ~QIsNaN(q)
    /\ (q.u \/ QNorm2(q.v) = 1)

Identity3 == <<  <<ROne, RZero, RZero>>, <<RZero, ROne, RZero>>, <<RZero, RZero, ROne>>  >>

Transpose3(R) == [i \in 1..3 |-> [j \in 1..3 |-> R[j][i]]]

\* a call with a unit quaternion and no offset has returned
UnitCallReturned ==
    /\ fn_result # <<>>
    /\ fn_args.lidar_offset = <<>>
    /\ IsUnitQuaternion(fn_args.quaternion)

\* C22: for a unit quaternion q the rotation block of the transform built
\* without offset, quaternion_to_rotation_matrix(q), is orthonormal with
\* determinant +1, and the transform passes the determinant check of
\* apply_transform_to_points
C22_RotationOrthonormal ==
    UnitCallReturned =>
        LET R == quaternion_to_rotation_matrix(fn_args.quaternion)
        IN  /\ \A i \in 1..3 : \A j \in 1..3 : fn_result[1][i][j] = R[i][j]
            /\ Mul3(Transpose3(R), R) = Identity3
            /\ Det3(R) = ROne
            /\ ~DeterminantWarning(fn_result[1])

\* a unit quaternion with irrational components and a rotation about an
\* oblique axis has been converted
C22_Witness ==
    /\ UnitCallReturned
    /\ fn_args.quaternion = QUnitOblique
    /\ fn_result[1][1][2] # RZero

-----------------------------------------------------------------------------
(* Properties of slerp_quaternions, checked under SpecSlerp *)

\* slerp_quaternions has returned for two non-zero quaternions
SlerpReturned ==
    /\ fn_result # <<>>
    /\ fn_args.q1.v # QZeroVec
    /\ fn_args.q2.v # QZeroVec

\* the branch taken: dot > DOT_THRESHOLD after the negation of q2
SlerpNearParallel ==
    LET a == QPrim(fn_args.q1.v)
        b == QPrim(fn_args.q2.v)
    IN  NearParallel(a, IF QDot(a, b) < 0 THEN QNeg(b) ELSE b)

-----------------------------------------------------------------------------
(* Properties of the GPS time normalisation, checked under SpecGps *)

\* C24: when the minimum GPS time exceeds 100 it is subtracted from every
\* value, so the minimum becomes 0 and all pairwise differences are kept;
\* when the minimum is at most 100 the values are unchanged
C24_GpsTimeNormalized ==
    fn_result # <<>> =>
        LET before == fn_args.gps_time_array
            after  == fn_result[1]
        IN  /\ Len(after) = Len(before)
            /\ SeqMin(before) > 100 =>
                  /\ \A k \in 1..Len(before) : after[k] = before[k] - SeqMin(before)
                  /\ SeqMin(after) = 0
                  /\ \A i, j \in 1..Len(before) : after[i] - after[j] = before[i] - before[j]
            /\ SeqMin(before) <= 100 => after = before

\* an array with different values above 100 has been normalised
C24_Witness ==
    /\ fn_result # <<>>
    /\ SeqMin(fn_args.gps_time_array) = 101
    /\ SeqMax(fn_args.gps_time_array) = 150
    /\ SeqMax(fn_result[1]) = 49

-----------------------------------------------------------------------------
(* Properties of calculate_optimal_scale_offset, checked under SpecScale *)

\* the returned scale is one of the four, the offset is not above the
\* minimum, and every coordinate encodes into the signed 32-bit range
ScaleOffsetFits ==
    LET coords == fn_args.coords_array
        so == fn_result[1]
    IN  /\ so.scale \in {1, 10, 100, 1000}
        /\ PairLeq(so.offset, PairMin(coords))
        /\ \A k \in 1..Len(coords) :
              /\ PairLeq(Int32Min, Encode(coords[k], so.offset, so.scale))
              /\ PairLeq(Encode(coords[k], so.offset, so.scale), Int32Max)
        /\ so.valid

\* max - min of the array
CoordRange == PairSub(PairMax(fn_args.coords_array), PairMin(fn_args.coords_array))

\* C25 as stated: for every non-empty array the scale is one of 0.001, 0.01,
\* 0.1, 1.0, the offset is not above the minimum and every encoding
\* (c - offset) / scale lies in [-2147483648, 2147483647]
C25_EveryArrayFits ==
    fn_result # <<>> => ScaleOffsetFits

\* C25: the same for every non-empty array whose range max - min is at most
\* 2 000 000 000, the MAX_INT32 of the function
C25_ArrayWithinRangeFits ==
    (fn_result # <<>> /\ PairLeq(CoordRange, Metres(2000000000, 0))) => ScaleOffsetFits

\* an array of range 2 000 000 000 has been given the scale 1.0
C25_Witness ==
    /\ fn_result # <<>>
    /\ CoordRange = Metres(2000000000, 0)
    /\ fn_result[1].scale = 1000
    /\ fn_result[1].valid

-----------------------------------------------------------------------------
(* Further properties of convert_bag_to_laz, checked under Spec *)

\* C26: after the first pass message_timestamps and message_points_data
\* have the same length and entry k of both belongs to the same bag message,
\* also when a message was skipped because reading its points raised
C26_TimestampsMatchPoints ==
    PastFirstPass =>
        /\ Len(message_timestamps) = Len(message_points_data)
        /\ \A k \in 1..Len(message_points_data) :
              /\ message_points_data[k] = ReadScans(bag_scans)[k].pts
              /\ message_timestamps[k] = ReadScans(bag_scans)[k].t

\* mode local with a usable trajectory, past the preparation
LocalPrepared == transform_mode = "local" /\ interp # <<>> /\ PastFirstPass

\* the first scan: the first message whose points were read
FirstScan == ReadScans(bag_scans)[1]

\* the transform of the pose interpolated at the timestamp of a scan
ScanPoseTransform(scan) ==
    create_transform_matrix(InterpPosition(odom[1], scan.t),
                            InterpOrientation(odom[1], scan.t))

\* C27: in mode local the reference transform is the inverse of the
\* transform of the pose interpolated at the first scan, it is computed
\* once, the transform applied to the first scan is the identity and the
\* first scan's points (those with finite coordinates) are output unchanged
C27_FirstScanIsReference ==
    (LocalPrepared /\ ReadScans(bag_scans) # <<>>) =>
        /\ reference_transform = <<MatInv(ScanPoseTransform(FirstScan))>>
        /\ msg_idx >= 1 =>
              /\ ScanTransform(transform_mode, interp, reference_transform, 0) = <<Identity4>>
              /\ \A j \in 1..Len(FirstScan.pts) :
                    VFinite(FirstScan.pts[j]) => xyz_list[j] = FirstScan.pts[j]

\* apply_slam_optimization has run on the loaded odometry
Optimized == optimize_calls > 0

\* the results apply_slam_optimization can return for the loaded odometry
OptimizedTrajectories ==
    {apply_slam_optimization(bag_odom, TRUE, outcome) :
        outcome \in SolverOutcomes(ApplySlamGraph(bag_odom, TRUE))}

\* C28: the trajectory the scan transforms are built from is the
\* SLAM-optimized one exactly when enable_slam is true, the mode is global
\* and odometry was loaded; otherwise no optimization runs and a loaded
\* trajectory is used as it is, in mode local or none with enable_slam true
\* in particular
C28_SlamOnlyInGlobalMode ==
    pc # "load_odometry" =>
        /\ Optimized <=> (arg_slam /\ arg_mode = "global" /\ odometry_topic /\ bag_odom # <<>>)
        /\ Optimized => (optimize_calls = 1 /\ odom # <<>> /\ odom[1] \in OptimizedTrajectories)
        /\ (~Optimized /\ odom # <<>>) => odom = <<bag_odom>>
        /\ (arg_slam /\ arg_mode \in {"local", "none"}) =>
              (~Optimized /\ (odom = <<>> \/ odom = <<bag_odom>>))
        /\ interp # <<>> =>
              interp[1] = interpolate_odometry_data(message_timestamps, odom[1]).poses

\* a run in mode global with SLAM has written its file from scan transforms
\* of an optimized trajectory that differs from the loaded one
C28_Witness ==
    /\ pc = "done"
    /\ Optimized
    /\ arg_slam /\ arg_mode = "global"
    /\ odom[1] # bag_odom
    /\ interp # <<>>
    /\ msg_idx > 0

-----------------------------------------------------------------------------
(* Properties of detect_loop_closures with point clouds, under SpecClouds *)

EdgePairs(edges) == {<<edges[k][1], edges[k][2]>> : k \in 1..Len(edges)}

\* the confidence a list of edges gives the pair pr
EdgeConfidence(edges, pr) ==
    CHOOSE k \in 1..Len(edges) : <<edges[k][1], edges[k][2]>> = pr

\* C29: on the same poses and parameters the pairs accepted with point
\* clouds are among the pairs accepted without; the similarity of two clouds
\* lies in [0, 1] and is 0 for a missing or empty cloud, so the confidence
\* of a pair with clouds is at most its confidence without
C29_CloudsOnlyRemoveEdges ==
    fn_result # <<>> =>
        /\ EdgePairs(fn_result[1].with) \subseteq EdgePairs(fn_result[1].without)
        /\ \A pr \in EdgePairs(fn_result[1].with) :
              ~RLess(fn_result[1].without[EdgeConfidence(fn_result[1].without, pr)][3],
                     fn_result[1].with[EdgeConfidence(fn_result[1].with, pr)][3])
        /\ \A pc1, pc2 \in PoseClouds :
              LET sim == _calculate_point_cloud_similarity(pc1, pc2)
              IN  /\ ~RLess(sim[1], RZero) /\ ~RLess(ROne, sim[2]) /\ ~RLess(sim[2], sim[1])
                  /\ (pc1 = <<>> \/ pc1 = << <<>> >> \/ pc2 = <<>> \/ pc2 = << <<>> >>)
                        => sim = <<RZero, RZero>>

\* point clouds have removed one of two edges and lowered the confidence of
\* the other
C29_Witness ==
    /\ fn_result # <<>>
    /\ fn_args.point_clouds # <<>>
    /\ Len(fn_result[1].without) = 2
    /\ Len(fn_result[1].with) = 1
    /\ RLess(fn_result[1].with[1][3], ROne)
    /\ \E k \in 1..2 : /\ fn_result[1].without[k][1] = fn_result[1].with[1][1]
                        /\ fn_result[1].without[k][2] = fn_result[1].with[1][2]
                        /\ RLess(fn_result[1].with[1][3], fn_result[1].without[k][3])

-----------------------------------------------------------------------------
(* Properties of the per-point attributes, checked under SpecAttr *)

\* the points read, in the order of messages and points, with their fields
InputPoints ==
    Flatten([k \in 1..Len(message_points_data) |->
               [j \in 1..Len(message_points_data[k]) |->
                   [p |-> message_points_data[k][j],
                    i |-> message_point_fields[k][j].i,
                    t |-> message_point_fields[k][j].t]]])

\* entry k of the arrays x, i, g is one input point: its coordinates, its
\* intensity when intensity is kept, and its time field (up to the shift of
\* the normalisation) when the time comes from the points
SameInputPoint(x, i, g, k, shift) ==
    \E n \in 1..Len(InputPoints) :
        /\ x[k] = InputPoints[n].p
        /\ has_intensity => i[k] = InputPoints[n].i
        /\ has_pointcloud_time => RAdd(g[k], shift) = InputPoints[n].t

\* the arrays x, i, g have equal length and are aligned
Aligned(x, i, g, shift) ==
    /\ Len(g) = Len(x)
    /\ has_intensity => Len(i) = Len(x)
    /\ \A k \in 1..Len(x) : SameInputPoint(x, i, g, k, shift)

\* what the normalisation subtracted from the times of the points
TimeShift(g) ==
    IF has_pointcloud_time /\ g # <<>> /\ InputPoints # <<>>
    THEN LET kept == SelectSeq(InputPoints, LAMBDA q : VFinite(q.p))
         IN  IF kept = <<>> THEN RZero
             ELSE RSub(RSeqMin([n \in 1..Len(kept) |-> kept[n].t]), RSeqMin(g))
    ELSE RZero

\* C30: throughout the run (accumulation over scans, scans without points
\* included, the filter of NaN/Inf coordinates, the sort by time) the x, y,
\* z arrays, the intensity array and the GPS-time array have equal length
\* and index k of every array refers to the same input point: the lists of
\* the second pass, the arrays at the end of the run and the arrays of the
\* LAS record written
C30_AttributesStayAligned ==
    /\ Aligned(xyz_list, intensity_list, gps_time_list, RZero)
    /\ pc \in {"done", "no_points"} =>
          Aligned(xyz_array, intensity_array, gps_time_array, TimeShift(gps_time_array))
    /\ out_las # <<>> =>
          Aligned(out_las[1].xyz,
                  IF has_intensity THEN out_las[1].intensity[1] ELSE <<>>,
                  out_las[1].gps_time[1], TimeShift(out_las[1].gps_time[1]))

=============================================================================
